---- MODULE Spec2Model ----
(***************************************************************************)
(* Scoring engine of the marketplace auditor                               *)
(* (backend/app/services/audit_engine.py, class AuditEngine).              *)
(*                                                                         *)
(* Encoding of the Python values the engine reads:                         *)
(*  - scores are floats that are always a whole number of points; they are *)
(*    kept in thousandths of a point (Pts(20) is 20.0) so that round(x, 2) *)
(*    is a real operation (Round2);                                        *)
(*  - an optional value or a dict entry is a slot [st, v]: st = "absent"   *)
(*    (key not in the dict), "none" (Python None) or "val" (v holds it);   *)
(*  - a status text is a sequence of tokens [w, up]: w is a word, up says  *)
(*    whether the word is written with upper-case letters; str.lower()     *)
(*    clears up in every token, `term in text` looks for a token with that *)
(*    word, `text in [terms]` compares the whole text;                     *)
(*  - rating is in hundredths (470 is 4.7), prices are whole currency      *)
(*    units, for which p * 0.95 and h * 1.5 compare in floating point      *)
(*    exactly as 95 * p / 100 and 3 * h / 2 do;                            *)
(*  - a description and a keyword list are represented by their length,    *)
(*    the only thing the engine reads of them.                             *)
(*                                                                         *)
(* Further down: the financial calculator (exact fractions, results in     *)
(* hundredths), the status endpoint of legal documents, logout with the    *)
(* token blacklist, and the payment gate of the full-audit endpoint.       *)
(***************************************************************************)
EXTENDS Integers, Sequences, FiniteSets, TLC

VARIABLES
    risks,            \* AuditEngine.risks
    recommendations,  \* AuditEngine.recommendations
    pc,               \* "ready": the call has not run; "done": it has
    args,             \* the arguments of the call
    ret,              \* what the call gave back: [exc, ...]
    entry,            \* AuditEngine.risks/recommendations when the call began
    db                \* what outlives a request: database rows, the clock, the
                      \* process-wide token blacklist, the log

vars == <<risks, recommendations, pc, args, ret, entry, db>>

\* the services that keep nothing between calls run without a store
NoDb == <<>>

---------------------------------------------------------------------------
\* Python values

SAbsent == [st |-> "absent", v |-> 0]
SNone == [st |-> "none", v |-> 0]
SVal(n) == [st |-> "val", v |-> n]

\* bool(x) of an optional number: None and 0 are falsy
Truthy(s) == s.st = "val" /\ s.v # 0

\* dict.get(key): an absent key reads as None
Get(s) == IF s.st = "absent" THEN SNone ELSE s

\* dict.get(key, default): only an absent key reads as the default
GetDefault(s, d) == IF s.st = "absent" THEN SVal(d) ELSE s

Pts(n) == n * 1000

\* round(x, 2) of a score held in thousandths (half to even)
Round2(x) ==
    LET q == x \div 10
        r == x % 10
    IN  IF r > 5 \/ (r = 5 /\ q % 2 = 1) THEN (q + 1) * 10 ELSE q * 10

Min(a, b) == IF a <= b THEN a ELSE b
Max(a, b) == IF a >= b THEN a ELSE b

RiskItem(type, severity, about) ==
    [type |-> type, severity |-> severity, about |-> about]

Recommendation(text, about) == [text |-> text, about |-> about]

MAX_LEGAL == 40
MAX_DELIVERY == 30
MAX_SEO == 20
MAX_PRICE == 10

---------------------------------------------------------------------------
\* Status texts

Tok(w, up) == [w |-> w, up |-> up]

\* str.lower()
Lower(text) == [i \in DOMAIN text |-> Tok(text[i].w, FALSE)]

\* term in text
Contains(text, w) == \E i \in DOMAIN text : text[i] = Tok(w, FALSE)

\* the list ["deystvuet", "valid", "active"] of line 92
ActiveTerms == {<<Tok("deystvuet", FALSE)>>, <<Tok("valid", FALSE)>>, <<Tok("active", FALSE)>>}

EmptyText == <<>>

---------------------------------------------------------------------------
\* AuditEngine._calculate_legal_score

CertNone == [t |-> "none", nonempty |-> FALSE, status |-> [st |-> "absent", v |-> EmptyText]]
CertDict(nonempty, status) == [t |-> "dict", nonempty |-> nonempty, status |-> status]

MarkNone == [t |-> "none", nonempty |-> FALSE, is_valid |-> "absent"]
MarkDict(nonempty, is_valid) == [t |-> "dict", nonempty |-> nonempty, is_valid |-> is_valid]

\* The certificate half (lines 91-117). certificate_status.get("status", "")
\* of a None status raises AttributeError at .lower().
CertificateCheck(acc, cert) ==
    IF cert.t = "dict" /\ cert.nonempty
    THEN IF cert.status.st = "none"
         THEN [acc EXCEPT !.exc = "AttributeError"]
         ELSE LET status == IF cert.status.st = "absent" THEN EmptyText ELSE cert.status.v
                  low == Lower(status)
              IN  IF low \in ActiveTerms
                  THEN [acc EXCEPT !.score = @ + Pts(20),
                                   !.recs = Append(@, Recommendation("certificate_valid", ""))]
                  ELSE IF Contains(low, "priostanovlen")
                  THEN [acc EXCEPT !.score = @ + Pts(5),
                                   !.risks = Append(@, RiskItem("certificate_suspended", "high", ""))]
                  ELSE IF Contains(low, "annulirovan")
                  THEN [acc EXCEPT !.score = @ + Pts(0),
                                   !.risks = Append(@, RiskItem("certificate_annulled", "critical", ""))]
                  ELSE acc
    ELSE [acc EXCEPT !.risks = Append(@, RiskItem("certificate_missing", "critical", ""))]

\* MarkingCheck with the "not applicable" branch of lines 132-134 left out
MarkingCheck_NoneIsZero(acc, marking) ==
    IF marking.t = "dict" /\ marking.nonempty
    THEN IF marking.is_valid = "true"
         THEN [acc EXCEPT !.score = @ + Pts(20),
                          !.recs = Append(@, Recommendation("marking_valid", ""))]
         ELSE [acc EXCEPT !.score = @ + Pts(0),
                          !.risks = Append(@, RiskItem("marking_invalid", "high", ""))]
    ELSE acc

\* The marking half (lines 119-134)
MarkingCheck(acc, marking) ==
    IF marking.t = "dict" /\ marking.nonempty
    THEN IF marking.is_valid = "true"
         THEN [acc EXCEPT !.score = @ + Pts(20),
                          !.recs = Append(@, Recommendation("marking_valid", ""))]
         ELSE [acc EXCEPT !.score = @ + Pts(0),
                          !.risks = Append(@, RiskItem("marking_invalid", "high", ""))]
    ELSE IF marking.t = "none"
    THEN [acc EXCEPT !.score = @ + Pts(20)]
    ELSE acc

\* acc = [risks, recs]: the engine's accumulators; the result carries the
\* accumulators after the call, the score and the exception raised ("" = none)
calculate_legal_score(acc, cert, marking) ==
    LET a0 == [risks |-> acc.risks, recs |-> acc.recs, score |-> Pts(0), exc |-> ""]
        a1 == CertificateCheck(a0, cert)
        a2 == IF a1.exc # "" THEN a1 ELSE MarkingCheck(a1, marking)
    IN  IF a2.exc # "" THEN a2 ELSE [a2 EXCEPT !.score = Min(@, Pts(MAX_LEGAL))]

---------------------------------------------------------------------------
\* AuditEngine._calculate_delivery_score

\* SlowerThanCompetitors without the factor 1.5
SlowerThanCompetitors_NoFactor(hours, comp) == Truthy(comp) /\ hours.v > comp.v

\* if competitor_avg_hours and delivery_time_hours > competitor_avg_hours * 1.5
SlowerThanCompetitors(hours, comp) == Truthy(comp) /\ 2 * hours.v > 3 * comp.v

\* DeliveryBucket with the boundaries given to the worse bucket
DeliveryBucket_Strict(acc, h) ==
    IF h < 18
    THEN [acc EXCEPT !.score = Pts(30),
                     !.recs = Append(@, Recommendation("delivery_excellent", ToString(h)))]
    ELSE IF h < 24
    THEN [acc EXCEPT !.score = Pts(25),
                     !.recs = Append(@, Recommendation("delivery_can_improve", ToString(h)))]
    ELSE IF h < 48
    THEN [acc EXCEPT !.score = Pts(15),
                     !.risks = Append(@, RiskItem("slow_delivery", "medium", ToString(h)))]
    ELSE [acc EXCEPT !.score = Pts(5),
                     !.risks = Append(@, RiskItem("very_slow_delivery", "high", ToString(h)))]

\* the bucket of a known delivery time (lines 157-178)
DeliveryBucket(acc, h) ==
    IF h <= 18
    THEN [acc EXCEPT !.score = Pts(30),
                     !.recs = Append(@, Recommendation("delivery_excellent", ToString(h)))]
    ELSE IF h <= 24
    THEN [acc EXCEPT !.score = Pts(25),
                     !.recs = Append(@, Recommendation("delivery_can_improve", ToString(h)))]
    ELSE IF h <= 48
    THEN [acc EXCEPT !.score = Pts(15),
                     !.risks = Append(@, RiskItem("slow_delivery", "medium", ToString(h)))]
    ELSE [acc EXCEPT !.score = Pts(5),
                     !.risks = Append(@, RiskItem("very_slow_delivery", "high", ToString(h)))]

calculate_delivery_score(acc, hours, comp) ==
    LET a0 == [risks |-> acc.risks, recs |-> acc.recs, score |-> Pts(0), exc |-> ""]
    IN  IF ~Truthy(hours)
        THEN [a0 EXCEPT !.score = Pts(15),
                        !.risks = Append(@, RiskItem("delivery_time_unknown", "medium", ""))]
        ELSE LET a1 == DeliveryBucket(a0, hours.v)
                 a2 == IF SlowerThanCompetitors(hours, comp)
                       THEN [a1 EXCEPT !.risks = Append(@,
                                RiskItem("slower_than_competitors", "high", ToString(comp.v)))]
                       ELSE a1
             IN  [a2 EXCEPT !.score = Min(@, Pts(MAX_DELIVERY))]

---------------------------------------------------------------------------
\* AuditEngine._calculate_seo_score

\* RatingCheck with the 4.7 threshold exclusive
RatingCheck_Exclusive(acc, rating) ==
    IF Truthy(rating)
    THEN IF rating.v > 470
         THEN [acc EXCEPT !.score = @ + Pts(10),
                          !.recs = Append(@, Recommendation("rating_excellent", ToString(rating.v)))]
         ELSE IF rating.v >= 400
         THEN [acc EXCEPT !.score = @ + Pts(7),
                          !.recs = Append(@, Recommendation("rating_work_on_quality", ToString(rating.v)))]
         ELSE [acc EXCEPT !.score = @ + Pts(3),
                          !.risks = Append(@, RiskItem("low_rating", "high", ToString(rating.v)))]
    ELSE [acc EXCEPT !.score = @ + Pts(5)]

\* the rating half (lines 205-221); rating in hundredths
RatingCheck(acc, rating) ==
    IF Truthy(rating)
    THEN IF rating.v >= 470
         THEN [acc EXCEPT !.score = @ + Pts(10),
                          !.recs = Append(@, Recommendation("rating_excellent", ToString(rating.v)))]
         ELSE IF rating.v >= 400
         THEN [acc EXCEPT !.score = @ + Pts(7),
                          !.recs = Append(@, Recommendation("rating_work_on_quality", ToString(rating.v)))]
         ELSE [acc EXCEPT !.score = @ + Pts(3),
                          !.risks = Append(@, RiskItem("low_rating", "high", ToString(rating.v)))]
    ELSE [acc EXCEPT !.score = @ + Pts(5)]

\* the description half (lines 224-237); len(None) raises TypeError
DescriptionCheck(acc, description) ==
    IF description.st # "val"
    THEN [acc EXCEPT !.exc = "TypeError"]
    ELSE IF description.v >= 1000
    THEN [acc EXCEPT !.score = @ + Pts(10),
                     !.recs = Append(@, Recommendation("description_detailed", ""))]
    ELSE IF description.v >= 500
    THEN [acc EXCEPT !.score = @ + Pts(7),
                     !.recs = Append(@, Recommendation("description_can_extend", ""))]
    ELSE [acc EXCEPT !.score = @ + Pts(3),
                     !.risks = Append(@, RiskItem("incomplete_description", "medium", ""))]

\* the keyword check (lines 240-246); len(None) raises TypeError
KeywordsCheck(acc, keywords) ==
    IF keywords.st # "val"
    THEN [acc EXCEPT !.exc = "TypeError"]
    ELSE IF keywords.v < 5
    THEN [acc EXCEPT !.risks = Append(@, RiskItem("insufficient_keywords", "low", ""))]
    ELSE acc

calculate_seo_score(acc, rating, description, keywords) ==
    LET a0 == [risks |-> acc.risks, recs |-> acc.recs, score |-> Pts(0), exc |-> ""]
        a1 == RatingCheck(a0, rating)
        a2 == DescriptionCheck(a1, description)
        a3 == IF a2.exc # "" THEN a2 ELSE KeywordsCheck(a2, keywords)
    IN  IF a3.exc # "" THEN a3 ELSE [a3 EXCEPT !.score = Min(@, Pts(MAX_SEO))]

---------------------------------------------------------------------------
\* AuditEngine._calculate_price_score

\* Dumping with the 5% boundary counted
Dumping_Inclusive(price, current_price) == 100 * price <= 95 * current_price

\* if price < current_price * 0.95
Dumping(price, current_price) == 100 * price < 95 * current_price

\* the loop over competitor_prices.items() (lines 265-273), in the dict's
\* order; items is a sequence of <<platform, price>>. The risk names the
\* platform (the percentage its text also shows is not modelled).
RECURSIVE PriceLoop(_, _, _)
PriceLoop(acc, items, current_price) ==
    IF items = <<>> THEN acc
    ELSE LET platform == Head(items)[1]
             price == Head(items)[2]
             a1 == IF Dumping(price, current_price)
                   THEN [acc EXCEPT !.score = @ - Pts(3),
                                    !.risks = Append(@, RiskItem("price_dumping", "medium", platform))]
                   ELSE acc
         IN  PriceLoop(a1, Tail(items), current_price)

\* ClampPrice without the floor at 0
ClampPrice_NoFloor(score) == Min(score, Pts(MAX_PRICE))

\* return max(0.0, min(score, self.MAX_PRICE))
ClampPrice(score) == Max(Pts(0), Min(score, Pts(MAX_PRICE)))

\* competitor_prices is a slot whose value is the sequence of items;
\* None.items() raises AttributeError
calculate_price_score(acc, current_price, competitor_prices) ==
    LET a0 == [risks |-> acc.risks, recs |-> acc.recs, score |-> Pts(0), exc |-> ""]
    IN  IF ~Truthy(current_price)
        THEN [a0 EXCEPT !.score = Pts(5)]
        ELSE IF competitor_prices.st # "val"
        THEN [a0 EXCEPT !.exc = "AttributeError"]
        ELSE LET a1 == PriceLoop([a0 EXCEPT !.score = Pts(10)], competitor_prices.v,
                                 current_price.v)
             IN  [a1 EXCEPT !.score = ClampPrice(@)]

---------------------------------------------------------------------------
\* AuditEngine.calculate_total_score

\* ResetAccumulators that keeps what the engine holds
ResetAccumulators_Kept(acc) == [risks |-> acc.risks, recs |-> acc.recs]

\* self.risks = []; self.recommendations = [] (lines 46-47)
ResetAccumulators(acc) == [risks |-> <<>>, recs |-> <<>>]

\* TotalOf with the class's weights applied once more
TotalOf_Weighted(legal, delivery, seo, price) ==
    (40 * legal + 30 * delivery + 20 * seo + 10 * price) \div 100

\* total_score = legal_score + delivery_score + seo_score + price_score
TotalOf(legal, delivery, seo, price) == legal + delivery + seo + price

InRange(x, lo, hi) == Pts(lo) <= x /\ x <= Pts(hi)

NoScores ==
    [total_score |-> 0, legal_score |-> 0, delivery_score |-> 0, seo_score |-> 0,
     price_score |-> 0]

\* the AuditScores model (schemas/audit.py): the constructor validates the
\* ge/le bounds of every field and raises ValidationError outside them
AuditScores(total, legal, delivery, seo, price) ==
    IF /\ InRange(total, 0, 100)
       /\ InRange(legal, 0, 40)
       /\ InRange(delivery, 0, 30)
       /\ InRange(seo, 0, 20)
       /\ InRange(price, 0, 10)
    THEN [exc |-> "",
          scores |-> [total_score |-> total, legal_score |-> legal,
                      delivery_score |-> delivery, seo_score |-> seo,
                      price_score |-> price]]
    ELSE [exc |-> "ValidationError", scores |-> NoScores]

Raised(a) == [exc |-> a.exc, risks |-> a.risks, recs |-> a.recs, scores |-> NoScores]

\* calculate_total_score with the price scorer invoked before the SEO scorer
calculate_total_score_PriceBeforeSeo(acc, product_data, certificate_status, marking_status, competitor_delivery_time) ==
    LET a0 == ResetAccumulators(acc)
        l == calculate_legal_score(a0, certificate_status, marking_status)
        d == calculate_delivery_score(l, Get(product_data.delivery_time_hours),
                                      competitor_delivery_time)
        p == calculate_price_score(d, Get(product_data.current_price),
                                   GetDefault(product_data.competitor_prices, <<>>))
        s == calculate_seo_score(p, Get(product_data.rating),
                                 GetDefault(product_data.description, 0),
                                 GetDefault(product_data.seo_keywords, 0))
    IN  IF l.exc # "" THEN Raised(l)
        ELSE IF d.exc # "" THEN Raised(d)
        ELSE IF p.exc # "" THEN Raised(p)
        ELSE IF s.exc # "" THEN Raised(s)
        ELSE LET sc == AuditScores(Round2(TotalOf(l.score, d.score, s.score, p.score)),
                                   Round2(l.score), Round2(d.score), Round2(s.score),
                                   Round2(p.score))
             IN  [exc |-> sc.exc, risks |-> s.risks, recs |-> s.recs, scores |-> sc.scores]

\* acc: the engine's accumulators when the call begins. The result holds the
\* accumulators when the call ends (the returned lists are these very lists),
\* the AuditScores and the exception raised ("" = the call returned).
calculate_total_score(acc, product_data, certificate_status, marking_status, competitor_delivery_time) ==
    LET a0 == ResetAccumulators(acc)
        l == calculate_legal_score(a0, certificate_status, marking_status)
        d == calculate_delivery_score(l, Get(product_data.delivery_time_hours),
                                      competitor_delivery_time)
        s == calculate_seo_score(d, Get(product_data.rating),
                                 GetDefault(product_data.description, 0),
                                 GetDefault(product_data.seo_keywords, 0))
        p == calculate_price_score(s, Get(product_data.current_price),
                                   GetDefault(product_data.competitor_prices, <<>>))
    IN  IF l.exc # "" THEN Raised(l)
        ELSE IF d.exc # "" THEN Raised(d)
        ELSE IF s.exc # "" THEN Raised(s)
        ELSE IF p.exc # "" THEN Raised(p)
        ELSE LET sc == AuditScores(Round2(TotalOf(l.score, d.score, s.score, p.score)),
                                   Round2(l.score), Round2(d.score), Round2(s.score),
                                   Round2(p.score))
             IN  [exc |-> sc.exc, risks |-> p.risks, recs |-> p.recs, scores |-> sc.scores]

---------------------------------------------------------------------------
\* AuditEngine.detect_shadow_ban
\* A history is a sequence of entries; an entry is the slot of its "position"
\* or "price" key. Prices of a history are in thousandths of a currency unit,
\* so that price_diff > 0.01 is a difference above 10; a difference of exactly
\* 0.01, which floating-point subtraction puts on either side, is not among
\* the inputs.

\* entry.get(key, 0)
GetOrZero(s) == IF s.st = "absent" THEN 0 ELSE s.v

Abs(x) == IF x >= 0 THEN x ELSE -x

\* latest.get("position", 0) - previous.get("position", 0) (lines 289-292)
PositionDrop(position_history) ==
    GetOrZero(position_history[Len(position_history)])
    - GetOrZero(position_history[Len(position_history) - 1])

\* lines 295-298
PriceChanged(price_history) ==
    /\ Len(price_history) >= 2
    /\ Abs(GetOrZero(price_history[Len(price_history)])
           - GetOrZero(price_history[Len(price_history) - 1])) > 10

\* ShadowBanCondition with the 50-position threshold inclusive
ShadowBanCondition_Inclusive(position_drop, price_changed) ==
    position_drop >= 50 /\ ~price_changed

\* if position_drop > 50 and not price_changed (line 300)
ShadowBanCondition(position_drop, price_changed) ==
    position_drop > 50 /\ ~price_changed

\* the result carries the accumulators after the call (nothing resets them)
\* and the returned flag
detect_shadow_ban(acc, position_history, price_history) ==
    IF Len(position_history) < 2
    THEN [risks |-> acc.risks, recs |-> acc.recs, flag |-> FALSE]
    ELSE IF ShadowBanCondition(PositionDrop(position_history), PriceChanged(price_history))
    THEN [risks |-> Append(acc.risks,
                       RiskItem("shadow_ban_detected", "critical",
                                ToString(PositionDrop(position_history)))),
          recs |-> acc.recs, flag |-> TRUE]
    ELSE [risks |-> acc.risks, recs |-> acc.recs, flag |-> FALSE]

---------------------------------------------------------------------------
\* The legal scorer called on a fresh engine

MaxStatusLen == 2

Words == {"deystvuet", "valid", "active", "priostanovlen", "annulirovan", "text"}
Tokens == {Tok(w, up) : w \in Words, up \in BOOLEAN}

RECURSIVE TextsOfLen(_)
TextsOfLen(n) ==
    IF n = 0 THEN {EmptyText}
    ELSE {Append(t, k) : t \in TextsOfLen(n - 1), k \in Tokens}

Texts == UNION {TextsOfLen(n) : n \in 0..MaxStatusLen}

CertInputs ==
    {CertNone, CertDict(FALSE, [st |-> "absent", v |-> EmptyText])}
    \cup {CertDict(TRUE, [st |-> s, v |-> EmptyText]) : s \in {"absent", "none"}}
    \cup {CertDict(TRUE, [st |-> "val", v |-> t]) : t \in Texts}

MarkInputs ==
    {MarkNone, MarkDict(FALSE, "absent")}
    \cup {MarkDict(TRUE, b) : b \in {"absent", "none", "true", "false"}}

NoRet == [exc |-> "", score |-> 0]
FreshAcc == [risks |-> <<>>, recs |-> <<>>]

InitLegal ==
    /\ risks = <<>>
    /\ recommendations = <<>>
    /\ pc = "ready"
    /\ args \in [cert : CertInputs, marking : MarkInputs]
    /\ ret = NoRet
    /\ entry = FreshAcc
    /\ db = NoDb

CallLegal ==
    /\ pc = "ready"
    /\ LET r == calculate_legal_score([risks |-> risks, recs |-> recommendations],
                                      args.cert, args.marking)
       IN  /\ risks' = r.risks
           /\ recommendations' = r.recs
           /\ ret' = [exc |-> r.exc, score |-> r.score]
    /\ pc' = "done"
    /\ UNCHANGED <<args, entry, db>>

NextLegal == CallLegal

SpecLegal == InitLegal /\ [][NextLegal]_vars

---------------------------------------------------------------------------
\* The delivery scorer called on a fresh engine

MaxHours == 50
MaxCompetitorHours == 34

OptNat(max) == {SNone} \cup {SVal(n) : n \in 0..max}

InitDelivery ==
    /\ risks = <<>>
    /\ recommendations = <<>>
    /\ pc = "ready"
    /\ args \in [hours : OptNat(MaxHours), comp : OptNat(MaxCompetitorHours)]
    /\ ret = NoRet
    /\ entry = FreshAcc
    /\ db = NoDb

CallDelivery ==
    /\ pc = "ready"
    /\ LET r == calculate_delivery_score([risks |-> risks, recs |-> recommendations],
                                         args.hours, args.comp)
       IN  /\ risks' = r.risks
           /\ recommendations' = r.recs
           /\ ret' = [exc |-> r.exc, score |-> r.score]
    /\ pc' = "done"
    /\ UNCHANGED <<args, entry, db>>

NextDelivery == CallDelivery

SpecDelivery == InitDelivery /\ [][NextDelivery]_vars

---------------------------------------------------------------------------
\* The SEO scorer called on a fresh engine

MaxKeywords == 6

RatingValues == {0, 1, 350, 399, 400, 469, 470, 500}
DescriptionLengths == {0, 499, 500, 999, 1000}

InitSeo ==
    /\ risks = <<>>
    /\ recommendations = <<>>
    /\ pc = "ready"
    /\ args \in [rating : {SNone} \cup {SVal(r) : r \in RatingValues},
                 description : {SNone} \cup {SVal(n) : n \in DescriptionLengths},
                 keywords : OptNat(MaxKeywords)]
    /\ ret = NoRet
    /\ entry = FreshAcc
    /\ db = NoDb

CallSeo ==
    /\ pc = "ready"
    /\ LET r == calculate_seo_score([risks |-> risks, recs |-> recommendations],
                                    args.rating, args.description, args.keywords)
       IN  /\ risks' = r.risks
           /\ recommendations' = r.recs
           /\ ret' = [exc |-> r.exc, score |-> r.score]
    /\ pc' = "done"
    /\ UNCHANGED <<args, entry, db>>

NextSeo == CallSeo

SpecSeo == InitSeo /\ [][NextSeo]_vars

---------------------------------------------------------------------------
\* The price scorer called on a fresh engine

MaxPlatforms == 4

Platforms == {"mp" \o ToString(i) : i \in 1..MaxPlatforms}
CurrentPrices == {0, 100, 1000}
CompetitorPrices == {94, 95}

\* the dicts of n entries: every order of n distinct platforms, every price
RECURSIVE ItemsOfLen(_)
ItemsOfLen(n) ==
    IF n = 0 THEN {<<>>}
    ELSE UNION {{Append(it, <<pl, pr>>) :
                    pl \in Platforms \ {it[i][1] : i \in DOMAIN it},
                    pr \in CompetitorPrices} :
                it \in ItemsOfLen(n - 1)}

Dicts == UNION {ItemsOfLen(n) : n \in 0..MaxPlatforms}

DNone == [st |-> "none", v |-> <<>>]
DAbsent == [st |-> "absent", v |-> <<>>]
DVal(items) == [st |-> "val", v |-> items]

InitPrice ==
    /\ risks = <<>>
    /\ recommendations = <<>>
    /\ pc = "ready"
    /\ args \in [current_price : {SNone} \cup {SVal(c) : c \in CurrentPrices},
                 competitor_prices : {DNone} \cup {DVal(d) : d \in Dicts}]
    /\ ret = NoRet
    /\ entry = FreshAcc
    /\ db = NoDb

CallPrice ==
    /\ pc = "ready"
    /\ LET r == calculate_price_score([risks |-> risks, recs |-> recommendations],
                                      args.current_price, args.competitor_prices)
       IN  /\ risks' = r.risks
           /\ recommendations' = r.recs
           /\ ret' = [exc |-> r.exc, score |-> r.score]
    /\ pc' = "done"
    /\ UNCHANGED <<args, entry, db>>

NextPrice == CallPrice

SpecPrice == InitPrice /\ [][NextPrice]_vars

---------------------------------------------------------------------------
\* calculate_total_score called once on a fresh engine, over every shape of
\* product snapshot: each field absent, None or present

\* a dict in which every platform undercuts a price of 1000
AllDumping == [i \in 1..MaxPlatforms |-> <<"mp" \o ToString(i), 94>>]

Text(w) == [st |-> "val", v |-> <<Tok(w, FALSE)>>]

ProductSnapshots ==
    [delivery_time_hours : {SAbsent, SNone, SVal(12), SVal(72)},
     rating : {SAbsent, SNone, SVal(350), SVal(490)},
     description : {SAbsent, SNone, SVal(100), SVal(1000)},
     seo_keywords : {SAbsent, SNone, SVal(3)},
     current_price : {SAbsent, SNone, SVal(1000)},
     competitor_prices : {DAbsent, DNone, DVal(<<>>), DVal(AllDumping)}]

TotalCerts ==
    {CertNone,
     CertDict(TRUE, Text("deystvuet")),
     CertDict(TRUE, Text("annulirovan")),
     CertDict(TRUE, [st |-> "none", v |-> EmptyText])}

TotalMarks == {MarkNone, MarkDict(TRUE, "true"), MarkDict(TRUE, "false")}

TotalArgs ==
    [product_data : ProductSnapshots,
     certificate_status : TotalCerts,
     marking_status : TotalMarks,
     competitor_delivery_time : {SNone, SVal(24)}]

NoTotalRet == [exc |-> "", scores |-> NoScores, risks |-> <<>>, recs |-> <<>>]

\* the call: the engine's lists are replaced, the caller receives the
\* scores and the two lists
TotalCall(a) ==
    LET r == calculate_total_score([risks |-> risks, recs |-> recommendations],
                                   a.product_data, a.certificate_status,
                                   a.marking_status, a.competitor_delivery_time)
    IN  /\ risks' = r.risks
        /\ recommendations' = r.recs
        /\ ret' = [exc |-> r.exc, scores |-> r.scores,
                   risks |-> IF r.exc = "" THEN r.risks ELSE <<>>,
                   recs |-> IF r.exc = "" THEN r.recs ELSE <<>>]

InitTotal ==
    /\ risks = <<>>
    /\ recommendations = <<>>
    /\ pc = "ready"
    /\ args \in TotalArgs
    /\ ret = NoTotalRet
    /\ entry = FreshAcc
    /\ db = NoDb

CallTotal ==
    /\ pc = "ready"
    /\ TotalCall(args)
    /\ pc' = "done"
    /\ UNCHANGED <<args, entry, db>>

NextTotal == CallTotal

SpecTotal == InitTotal /\ [][NextTotal]_vars

---------------------------------------------------------------------------
\* One engine instance used for call after call

ReuseSnapshots ==
    [delivery_time_hours : {SAbsent, SVal(72)},
     rating : {SVal(350)},
     description : {SVal(1000)},
     seo_keywords : {SVal(5), SNone},
     current_price : {SVal(1000)},
     competitor_prices : {DAbsent, DVal(<<<<"mp1", 94>>>>)}]

ReuseArgs ==
    [product_data : ReuseSnapshots,
     certificate_status : {CertNone, CertDict(TRUE, Text("deystvuet")),
                           CertDict(TRUE, Text("annulirovan"))},
     marking_status : {MarkNone, MarkDict(TRUE, "false")},
     competitor_delivery_time : {SNone}]

Init ==
    /\ risks = <<>>
    /\ recommendations = <<>>
    /\ pc = "idle"
    /\ args = CHOOSE a \in ReuseArgs : TRUE
    /\ ret = NoTotalRet
    /\ entry = FreshAcc
    /\ db = NoDb

CalculateTotalScore ==
    \E a \in ReuseArgs :
        /\ args' = a
        /\ entry' = [risks |-> risks, recs |-> recommendations]
        /\ UNCHANGED db
        /\ TotalCall(a)
        /\ pc' = "done"

Next == CalculateTotalScore

Spec == Init /\ [][Next]_vars

---------------------------------------------------------------------------
\* detect_shadow_ban called on a fresh engine

MaxHistory == 3

PositionEntries == {SAbsent, SVal(5), SVal(55), SVal(56)}
PriceEntries == {SAbsent, SVal(1000000), SVal(1000005), SVal(1000011)}

RECURSIVE HistoriesOfLen(_, _)
HistoriesOfLen(entries, n) ==
    IF n = 0 THEN {<<>>}
    ELSE {Append(h, x) : h \in HistoriesOfLen(entries, n - 1), x \in entries}

Histories(entries) == UNION {HistoriesOfLen(entries, n) : n \in 0..MaxHistory}

NoShadowRet == [exc |-> "", flag |-> FALSE]

InitShadow ==
    /\ risks = <<>>
    /\ recommendations = <<>>
    /\ pc = "ready"
    /\ args \in [position_history : Histories(PositionEntries),
                 price_history : Histories(PriceEntries)]
    /\ ret = NoShadowRet
    /\ entry = FreshAcc
    /\ db = NoDb

\* the call: the engine's risk list may grow, the caller receives the flag
ShadowCall(a) ==
    LET r == detect_shadow_ban([risks |-> risks, recs |-> recommendations],
                               a.position_history, a.price_history)
    IN  /\ risks' = r.risks
        /\ recommendations' = r.recs
        /\ ret' = [exc |-> "", flag |-> r.flag]

CallShadow ==
    /\ pc = "ready"
    /\ ShadowCall(args)
    /\ pc' = "done"
    /\ UNCHANGED <<args, entry, db>>

NextShadow == CallShadow

SpecShadow == InitShadow /\ [][NextShadow]_vars

---------------------------------------------------------------------------
\* One engine instance on which both public operations are called, in any
\* order: calculate_total_score resets the accumulators, detect_shadow_ban
\* appends to whatever the instance holds.

MaxHeldRisks == 5

EngineTotalArgs ==
    {a \in ReuseArgs : /\ a.product_data.delivery_time_hours = SAbsent
                       /\ a.product_data.seo_keywords = SVal(5)
                       /\ a.product_data.competitor_prices = DAbsent}

EngineShadowArgs ==
    [position_history : {<<SVal(5)>>, <<SVal(5), SVal(55)>>,
                         <<SVal(5), SVal(56)>>, <<SAbsent, SVal(56)>>},
     price_history : {<<>>}]

InitEngine ==
    /\ risks = <<>>
    /\ recommendations = <<>>
    /\ pc = "idle"
    /\ args = CHOOSE a \in EngineTotalArgs : TRUE
    /\ ret = NoTotalRet
    /\ entry = FreshAcc
    /\ db = NoDb

EngineCalculateTotalScore ==
    \E a \in EngineTotalArgs :
        /\ args' = a
        /\ entry' = [risks |-> risks, recs |-> recommendations]
        /\ UNCHANGED db
        /\ TotalCall(a)
        /\ pc' = "total"

EngineDetectShadowBan ==
    \E a \in EngineShadowArgs :
        /\ Len(risks) < MaxHeldRisks
        /\ args' = a
        /\ entry' = [risks |-> risks, recs |-> recommendations]
        /\ UNCHANGED db
        /\ ShadowCall(a)
        /\ pc' = "shadow"

NextEngine == EngineCalculateTotalScore \/ EngineDetectShadowBan

SpecEngine == InitEngine /\ [][NextEngine]_vars

---------------------------------------------------------------------------
\* Two callers inside calculate_total_score at the same time. Each statement
\* of the method (the reset, the four scorer calls, the return) is one step
\* and the steps of the two callers interleave freely. Here risks and
\* recommendations map an engine instance to its lists, pc, ret map a caller
\* to its position and to its frame (the scores computed so far, then the
\* returned tuple), and args holds how the callers obtained their engine
\* together with each caller's arguments.

Callers == {1, 2}

\* EngineOf for callers that all use one module-level instance
EngineOf_Singleton(sharing, c) == 1

\* the instance a caller works on: full_audit constructs one per request
\* (audit_engine = AuditEngine()), a shared instance is the same for all
EngineOf(sharing, c) == IF sharing = "own" THEN c ELSE 1

ConcurrentArgs ==
    {a \in ReuseArgs : /\ a.product_data.seo_keywords = SVal(5)
                       /\ a.marking_status = MarkNone}

InitConcurrent ==
    /\ risks = [e \in Callers |-> <<>>]
    /\ recommendations = [e \in Callers |-> <<>>]
    /\ pc = [c \in Callers |-> "reset"]
    /\ args \in [sharing : {"shared", "own"}, call : [Callers -> ConcurrentArgs]]
    /\ ret = [c \in Callers |-> NoTotalRet]
    /\ entry = FreshAcc
    /\ db = NoDb

Held(c) ==
    [risks |-> risks[EngineOf(args.sharing, c)],
     recs |-> recommendations[EngineOf(args.sharing, c)]]

\* the engine's lists after a statement of caller c
Store(c, r) ==
    /\ risks' = [risks EXCEPT ![EngineOf(args.sharing, c)] = r.risks]
    /\ recommendations' = [recommendations EXCEPT ![EngineOf(args.sharing, c)] = r.recs]

\* a scorer call of caller c: its appends land in the engine's lists, its
\* score in the frame; an exception ends the call
ScorerStep(c, at, r, field, next) ==
    /\ pc[c] = at
    /\ Store(c, r)
    /\ IF r.exc # ""
       THEN /\ ret' = [ret EXCEPT ![c].exc = r.exc]
            /\ pc' = [pc EXCEPT ![c] = "done"]
       ELSE /\ ret' = [ret EXCEPT ![c].scores[field] = r.score]
            /\ pc' = [pc EXCEPT ![c] = next]
    /\ UNCHANGED <<args, entry, db>>

ResetStep(c) ==
    /\ pc[c] = "reset"
    /\ Store(c, ResetAccumulators(Held(c)))
    /\ pc' = [pc EXCEPT ![c] = "legal"]
    /\ UNCHANGED <<args, ret, entry, db>>

LegalStep(c) ==
    ScorerStep(c, "legal",
               calculate_legal_score(Held(c), args.call[c].certificate_status,
                                     args.call[c].marking_status),
               "legal_score", "delivery")

DeliveryStep(c) ==
    ScorerStep(c, "delivery",
               calculate_delivery_score(Held(c),
                                        Get(args.call[c].product_data.delivery_time_hours),
                                        args.call[c].competitor_delivery_time),
               "delivery_score", "seo")

SeoStep(c) ==
    ScorerStep(c, "seo",
               calculate_seo_score(Held(c), Get(args.call[c].product_data.rating),
                                   GetDefault(args.call[c].product_data.description, 0),
                                   GetDefault(args.call[c].product_data.seo_keywords, 0)),
               "seo_score", "price")

PriceStep(c) ==
    ScorerStep(c, "price",
               calculate_price_score(Held(c), Get(args.call[c].product_data.current_price),
                                     GetDefault(args.call[c].product_data.competitor_prices, <<>>)),
               "price_score", "return")

\* scores = AuditScores(...); return scores, self.risks, self.recommendations
ReturnStep(c) ==
    /\ pc[c] = "return"
    /\ LET f == ret[c].scores
           sc == AuditScores(Round2(TotalOf(f.legal_score, f.delivery_score,
                                            f.seo_score, f.price_score)),
                             Round2(f.legal_score), Round2(f.delivery_score),
                             Round2(f.seo_score), Round2(f.price_score))
       IN  ret' = [ret EXCEPT ![c] =
                      [exc |-> sc.exc, scores |-> sc.scores,
                       risks |-> IF sc.exc = "" THEN Held(c).risks ELSE <<>>,
                       recs |-> IF sc.exc = "" THEN Held(c).recs ELSE <<>>]]
    /\ pc' = [pc EXCEPT ![c] = "done"]
    /\ UNCHANGED <<risks, recommendations, args, entry, db>>

NextConcurrent ==
    \E c \in Callers :
        \/ ResetStep(c)
        \/ LegalStep(c)
        \/ DeliveryStep(c)
        \/ SeoStep(c)
        \/ PriceStep(c)
        \/ ReturnStep(c)

SpecConcurrent == InitConcurrent /\ [][NextConcurrent]_vars

---------------------------------------------------------------------------
\* FinancialCalculator (services/financial_calculator.py)
\* Amounts inside a calculation are exact fractions [n, d]; round(x, 2) turns
\* a fraction into a whole number of hundredths, which is how every returned
\* field is held. The inputs are chosen so that no returned field falls
\* exactly between two hundredths, where the floating-point result is not
\* decided by the decimal value.

RECURSIVE GCD(_, _)
GCD(a, b) == IF b = 0 THEN a ELSE GCD(b, a % b)

\* the fraction n/d in lowest terms with a positive denominator (d # 0)
Rat(n, d) ==
    LET g == GCD(Abs(n), Abs(d))
        sg == IF d < 0 THEN -1 ELSE 1
    IN  [n |-> sg * (n \div g), d |-> sg * (d \div g)]

Whole(k) == [n |-> k, d |-> 1]

\* the four operations, on fractions in lowest terms; common factors are
\* divided out before multiplying to keep the intermediate integers small
RAdd(x, y) ==
    LET g == GCD(x.d, y.d)
    IN  Rat(x.n * (y.d \div g) + y.n * (x.d \div g), (x.d \div g) * y.d)

RNeg(x) == [n |-> -x.n, d |-> x.d]
RSub(x, y) == RAdd(x, RNeg(y))

RMul(x, y) ==
    LET g1 == GCD(Abs(x.n), y.d)
        g2 == GCD(Abs(y.n), x.d)
    IN  [n |-> (x.n \div g1) * (y.n \div g2), d |-> (x.d \div g2) * (y.d \div g1)]

\* y # 0
RDiv(x, y) ==
    RMul(x, IF y.n > 0 THEN [n |-> y.d, d |-> y.n] ELSE [n |-> -y.d, d |-> -y.n])

RPositive(x) == x.n > 0

\* round(x, 2), in hundredths (half to even), by long division
RoundHundredths(x) ==
    LET r0 == x.n % x.d
        r1 == (10 * r0) % x.d
        r2 == (10 * r1) % x.d
        q == 100 * (x.n \div x.d) + 10 * ((10 * r0) \div x.d) + (10 * r1) \div x.d
    IN  IF 2 * r2 > x.d \/ (2 * r2 = x.d /\ q % 2 = 1) THEN q + 1 ELSE q

\* settings.VAT_RATE = 0.22 (core/config.py)
VAT_RATE == Rat(22, 100)

Percent(p) == RDiv(p, Whole(100))

\* RevenueWithoutVat taking VAT as a discount on the gross price
RevenueWithoutVat_Discount(gross_revenue) ==
    RMul(gross_revenue, RSub(Whole(1), VAT_RATE))

\* revenue_without_vat = gross_revenue / (1 + self.VAT_RATE)
RevenueWithoutVat(gross_revenue) ==
    RDiv(gross_revenue, RAdd(Whole(1), VAT_RATE))

calculate_net_profit(product_price, cost_price, logistics_cost, marketplace_commission_percent, return_rate_percent, include_vat) ==
    LET gross_revenue == product_price
        marketplace_fee == RMul(gross_revenue, Percent(marketplace_commission_percent))
        revenue_without_vat == IF include_vat THEN RevenueWithoutVat(gross_revenue)
                               ELSE gross_revenue
        vat_amount == IF include_vat THEN RSub(gross_revenue, revenue_without_vat)
                      ELSE Whole(0)
        base_profit == RSub(RSub(RSub(revenue_without_vat, marketplace_fee), cost_price),
                            logistics_cost)
        return_losses == RMul(gross_revenue, Percent(return_rate_percent))
        net_profit == RSub(base_profit, return_losses)
        margin_percentage ==
            IF RPositive(gross_revenue)
            THEN RMul(RDiv(RSub(gross_revenue, cost_price), gross_revenue), Whole(100))
            ELSE Whole(0)
        effective_margin ==
            IF RPositive(gross_revenue)
            THEN RMul(RDiv(net_profit, gross_revenue), Whole(100))
            ELSE Whole(0)
    IN  [gross_revenue |-> RoundHundredths(gross_revenue),
         revenue_without_vat |-> RoundHundredths(revenue_without_vat),
         vat_amount |-> RoundHundredths(vat_amount),
         cost_price |-> RoundHundredths(cost_price),
         marketplace_fee |-> RoundHundredths(marketplace_fee),
         logistics_cost |-> RoundHundredths(logistics_cost),
         return_losses |-> RoundHundredths(return_losses),
         net_profit |-> RoundHundredths(net_profit),
         margin_percentage |-> RoundHundredths(margin_percentage),
         effective_margin_percentage |-> RoundHundredths(effective_margin),
         total_costs |-> RoundHundredths(
             RAdd(RAdd(RAdd(RAdd(cost_price, marketplace_fee), logistics_cost),
                       return_losses), vat_amount))]

NoBreakEven ==
    [recommended_price |-> 0, breakeven_price |-> 0, price_without_vat |-> 0]

\* the result is [exc, prices]; 1 - commission - returns = 0 makes the
\* division of line 105 raise ZeroDivisionError
calculate_break_even_price(cost_price, logistics_cost, marketplace_commission_percent, return_rate_percent, include_vat, target_margin_percent) ==
    LET total_base_cost == RAdd(cost_price, logistics_cost)
        rest == RSub(RSub(Whole(1), Percent(marketplace_commission_percent)),
                     Percent(return_rate_percent))
    IN  IF rest.n = 0 THEN [exc |-> "ZeroDivisionError", prices |-> NoBreakEven]
        ELSE LET cost_multiplier == RDiv(Whole(1), rest)
                 margin_multiplier == RAdd(Whole(1), Percent(target_margin_percent))
                 price_without_vat == RMul(RMul(total_base_cost, cost_multiplier),
                                           margin_multiplier)
                 recommended_price ==
                     IF include_vat
                     THEN RMul(price_without_vat, RAdd(Whole(1), VAT_RATE))
                     ELSE price_without_vat
                 breakeven0 == RMul(total_base_cost, cost_multiplier)
                 breakeven_price ==
                     IF include_vat THEN RMul(breakeven0, RAdd(Whole(1), VAT_RATE))
                     ELSE breakeven0
             IN  [exc |-> "",
                  prices |-> [recommended_price |-> RoundHundredths(recommended_price),
                              breakeven_price |-> RoundHundredths(breakeven_price),
                              price_without_vat |-> RoundHundredths(price_without_vat)]]

---------------------------------------------------------------------------
\* The three ways calculate_net_profit is reached: the calculate_finances
\* endpoint behind the FinancialCalculation schema, full_audit with the
\* product's stored price, and a direct call. Prices, costs and percentages
\* are whole numbers here. ret.result is the returned breakdown as a sequence
\* of at most one element (empty: no breakdown was produced).

ProductPrices == {-10, 0, 100, 1220}
CostPrices == {-5, 0, 40, 500}
LogisticsCosts == {0, 50}
CommissionPercents == {0, 10, 15}
ReturnPercents == {0, 5}

ProfitArgs ==
    [path : {"endpoint", "audit", "direct"},
     product_price : ProductPrices,
     cost_price : CostPrices,
     logistics_cost : LogisticsCosts,
     marketplace_commission : CommissionPercents,
     return_rate : ReturnPercents,
     include_vat : BOOLEAN]

NoProfitRet == [exc |-> "", result |-> <<>>]

InitProfit ==
    /\ risks = <<>>
    /\ recommendations = <<>>
    /\ pc = "ready"
    /\ args \in ProfitArgs
    /\ ret = NoProfitRet
    /\ entry = FreshAcc
    /\ db = NoDb

\* FinancialCalculation (schemas/audit.py): gt=0 on both prices, 0..100 on
\* the two percentages
FinancialCalculationValid(a) ==
    /\ a.product_price > 0
    /\ a.cost_price > 0
    /\ 0 <= a.marketplace_commission /\ a.marketplace_commission <= 100
    /\ 0 <= a.return_rate /\ a.return_rate <= 100

NetProfitOf(a) ==
    calculate_net_profit(Whole(a.product_price), Whole(a.cost_price),
                         Whole(a.logistics_cost), Whole(a.marketplace_commission),
                         Whole(a.return_rate), a.include_vat)

\* POST /calculate-finances: a body that fails the schema is answered 422
\* before the handler runs
CalculateFinances ==
    /\ pc = "ready"
    /\ args.path = "endpoint"
    /\ ret' = IF FinancialCalculationValid(args)
              THEN [exc |-> "", result |-> <<NetProfitOf(args)>>]
              ELSE [exc |-> "422", result |-> <<>>]
    /\ pc' = "done"
    /\ UNCHANGED <<risks, recommendations, args, entry, db>>

\* full_audit, lines 138-146: a stored price of None or 0 gives {} (a None
\* price is the 0 of this model), any other price is passed on with
\* cost_price = price * 0.6, commission 15.0 and the defaults for the rest
FullAuditFinancialResult ==
    /\ pc = "ready"
    /\ args.path = "audit"
    /\ ret' = IF args.product_price # 0
              THEN [exc |-> "",
                    result |-> <<calculate_net_profit(
                                     Whole(args.product_price),
                                     RMul(Whole(args.product_price), Rat(6, 10)),
                                     Whole(0), Whole(15), Whole(5), TRUE)>>]
              ELSE [exc |-> "", result |-> <<>>]
    /\ pc' = "done"
    /\ UNCHANGED <<risks, recommendations, args, entry, db>>

DirectNetProfit ==
    /\ pc = "ready"
    /\ args.path = "direct"
    /\ ret' = [exc |-> "", result |-> <<NetProfitOf(args)>>]
    /\ pc' = "done"
    /\ UNCHANGED <<risks, recommendations, args, entry, db>>

NextProfit == CalculateFinances \/ FullAuditFinancialResult \/ DirectNetProfit

SpecProfit == InitProfit /\ [][NextProfit]_vars

---------------------------------------------------------------------------
\* calculate_break_even_price, then calculate_net_profit at each of the two
\* returned prices with the same costs and rates

BreakEvenCosts == {500, 600}
BreakEvenLogistics == {0, 100}
BreakEvenCommissions == {0, 10, 15, 50, 60}
BreakEvenReturns == {0, 5, 50}
TargetMargins == {0, 20}

BreakEvenArgs ==
    [cost_price : BreakEvenCosts,
     logistics_cost : BreakEvenLogistics,
     marketplace_commission : BreakEvenCommissions,
     return_rate : BreakEvenReturns,
     include_vat : BOOLEAN,
     target_margin : TargetMargins]

NoBreakEvenRet ==
    [exc |-> "", prices |-> NoBreakEven, at_breakeven |-> <<>>, at_recommended |-> <<>>]

InitBreakEven ==
    /\ risks = <<>>
    /\ recommendations = <<>>
    /\ pc = "ready"
    /\ args \in BreakEvenArgs
    /\ ret = NoBreakEvenRet
    /\ entry = FreshAcc
    /\ db = NoDb

CallBreakEven ==
    /\ pc = "ready"
    /\ LET r == calculate_break_even_price(Whole(args.cost_price),
                    Whole(args.logistics_cost), Whole(args.marketplace_commission),
                    Whole(args.return_rate), args.include_vat,
                    Whole(args.target_margin))
       IN  /\ ret' = [ret EXCEPT !.exc = r.exc, !.prices = r.prices]
           /\ pc' = IF r.exc = "" THEN "priced" ELSE "done"
    /\ UNCHANGED <<risks, recommendations, args, entry, db>>

\* calculate_net_profit at a returned price (a number of hundredths)
NetProfitAt(price, a) ==
    calculate_net_profit(Rat(price, 100), Whole(a.cost_price),
                         Whole(a.logistics_cost), Whole(a.marketplace_commission),
                         Whole(a.return_rate), a.include_vat)

FeedBack ==
    /\ pc = "priced"
    /\ ret' = [ret EXCEPT
                 !.at_breakeven = <<NetProfitAt(ret.prices.breakeven_price, args)>>,
                 !.at_recommended = <<NetProfitAt(ret.prices.recommended_price, args)>>]
    /\ pc' = "done"
    /\ UNCHANGED <<risks, recommendations, args, entry, db>>

NextBreakEven == CallBreakEven \/ FeedBack

SpecBreakEven == InitBreakEven /\ [][NextBreakEven]_vars

---------------------------------------------------------------------------
\* Legal documents (api/legal.py): PATCH /documents/{doc_id}/status on one
\* stored document, request after request. db holds the document row and
\* the clock; args is the request, ret the response.

MaxRequests == 5

DOC_STATUSES == {"draft", "sent", "response_received", "closed"}

\* _VALID_TRANSITIONS with a way back out of "closed"
ValidTransitions_Reopen(status) ==
    CASE status = "draft" -> {"sent", "closed"}
      [] status = "sent" -> {"response_received", "closed"}
      [] status = "response_received" -> {"closed"}
      [] status = "closed" -> {"draft"}
      [] OTHER -> {}

\* _VALID_TRANSITIONS.get(doc.status, set())
ValidTransitions(status) ==
    CASE status = "draft" -> {"sent", "closed"}
      [] status = "sent" -> {"response_received", "closed"}
      [] status = "response_received" -> {"closed"}
      [] status = "closed" -> {}
      [] OTHER -> {}

\* what a client may put in new_status; "archived" is not in DOC_STATUSES
RequestedStatuses == DOC_STATUSES \cup {"archived"}

NoRequest == [by |-> "owner", new_status |-> "draft"]

\* a document as the generate endpoints create it (status="draft")
InitLegalDoc ==
    /\ risks = <<>>
    /\ recommendations = <<>>
    /\ pc = "idle"
    /\ args = NoRequest
    /\ ret = [code |-> 0]
    /\ entry = FreshAcc
    /\ db = [doc |-> [status |-> "draft", sent_at |-> 0, response_received_at |-> 0],
             now |-> 0]

\* the handler: 422 from the DocumentStatusUpdate schema for an unknown
\* status, 404 for a document of another user, 422 for a transition that is
\* not allowed, otherwise the new status is stored with its timestamp
update_document_status(doc, by, new_status, now) ==
    IF new_status \notin DOC_STATUSES THEN [code |-> 422, doc |-> doc]
    ELSE IF by # "owner" THEN [code |-> 404, doc |-> doc]
    ELSE IF new_status \notin ValidTransitions(doc.status) THEN [code |-> 422, doc |-> doc]
    ELSE [code |-> 200,
          doc |-> [status |-> new_status,
                   sent_at |-> IF new_status = "sent" THEN now ELSE doc.sent_at,
                   response_received_at |->
                       IF new_status = "response_received" THEN now
                       ELSE doc.response_received_at]]

UpdateDocumentStatus ==
    \E by \in {"owner", "other"}, new_status \in RequestedStatuses :
        /\ db.now < MaxRequests
        /\ LET r == update_document_status(db.doc, by, new_status, db.now + 1)
           IN  /\ db' = [doc |-> r.doc, now |-> db.now + 1]
               /\ ret' = [code |-> r.code]
        /\ args' = [by |-> by, new_status |-> new_status]
        /\ pc' = "answered"
        /\ UNCHANGED <<risks, recommendations, entry>>

NextLegalDoc == UpdateDocumentStatus

SpecLegalDoc == InitLegalDoc /\ [][NextLegalDoc]_vars

---------------------------------------------------------------------------
\* Logout and the token blacklist (core/security.py, api/auth.py).
\* The clock counts half seconds. A token's exp claim is a whole number of
\* seconds. jwt.decode rejects a token once exp < now with now cut down to
\* whole seconds; TokenBlacklist._purge_expired compares the exp instant with
\* utcnow() at full resolution. db holds the clock, TokenBlacklist._store
\* (the set of [jti, exp] entries) and the "Token revoked" log lines.

TicksPerSecond == 2
MaxClock == 6

\* the tokens in circulation: [jti, exp in seconds], all correctly signed
\* and owned by existing users
IssuedTokens == {[jti |-> "a", exp |-> 1], [jti |-> "b", exp |-> 2]}

\* decode_access_token(token) is not None
DecodeAccepts(token, now) == ~(token.exp < now \div TicksPerSecond)

\* TokenBlacklist.is_revoked
is_revoked(store, jti) == \E x \in store : x.jti = jti

\* TokenBlacklist._purge_expired: entries with exp < now are deleted
purge_expired(store, now) == {x \in store : ~(x.exp * TicksPerSecond < now)}

\* TokenBlacklist.revoke
revoke(store, jti, exp, now) ==
    purge_expired({x \in store : x.jti # jti} \cup {[jti |-> jti, exp |-> exp]}, now)

\* get_current_user: 401 unless the token decodes and its jti is not revoked
get_current_user(store, token, now) ==
    IF ~DecodeAccepts(token, now) THEN 401
    ELSE IF is_revoked(store, token.jti) THEN 401
    ELSE 200

InitAuth ==
    /\ risks = <<>>
    /\ recommendations = <<>>
    /\ pc = "idle"
    /\ args = CHOOSE t \in IssuedTokens : TRUE
    /\ ret = [code |-> 0]
    /\ entry = FreshAcc
    /\ db = [now |-> 0, store |-> {}, log |-> {}]

Tick ==
    /\ db.now < MaxClock
    /\ db' = [db EXCEPT !.now = @ + 1]
    /\ UNCHANGED <<risks, recommendations, pc, args, ret, entry>>

\* any endpoint behind Depends(get_current_user)
AuthenticatedRequest ==
    \E t \in IssuedTokens :
        /\ args' = t
        /\ ret' = [code |-> get_current_user(db.store, t, db.now)]
        /\ pc' = "request"
        /\ UNCHANGED <<risks, recommendations, entry, db>>

\* POST /logout
Logout ==
    \E t \in IssuedTokens :
        /\ args' = t
        /\ pc' = "logout"
        /\ IF get_current_user(db.store, t, db.now) # 200
           THEN ret' = [code |-> 401] /\ UNCHANGED db
           ELSE /\ ret' = [code |-> 200]
                /\ db' = [db EXCEPT !.store = revoke(@, t.jti, t.exp, db.now),
                                    !.log = @ \cup {t.jti}]
        /\ UNCHANGED <<risks, recommendations, entry>>

NextAuth == Tick \/ AuthenticatedRequest \/ Logout

SpecAuth == InitAuth /\ [][NextAuth]_vars

---------------------------------------------------------------------------
\* POST /full (api/audit.py, full_audit). db holds the AuditLog rows and the
\* trace of what the handler reached beyond its own frame: the product
\* query, the marketplace fetch, the two registry checks, the scoring and
\* the AuditLog write.

\* User.subscription_active is a nullable flag (1 for True), User.balance a
\* nullable float
AuditUsers ==
    [subscription_active : {SNone, SVal(0), SVal(1)},
     balance : {SNone, SVal(0), SVal(-5), SVal(2500)}]

\* the product row the query finds, if any; current_price 0 stands for a
\* price that is None or 0
AuditProducts ==
    [found : BOOLEAN, certificate_number : BOOLEAN, marking_code : BOOLEAN,
     current_price : {0, 1000}]

AuditArgs ==
    [user : AuditUsers,
     product : AuditProducts,
     certificate_answer : {CertNone, CertDict(TRUE, Text("deystvuet"))},
     marking_answer : {MarkNone, MarkDict(TRUE, "true")}]

\* PaymentRequired refusing only a negative balance
PaymentRequired_NegativeOnly(user) ==
    /\ ~Truthy(user.subscription_active)
    /\ (IF Truthy(user.balance) THEN user.balance.v ELSE 0) < 0

\* if not current_user.subscription_active: if (current_user.balance or 0) <= 0
PaymentRequired(user) ==
    /\ ~Truthy(user.subscription_active)
    /\ (IF Truthy(user.balance) THEN user.balance.v ELSE 0) <= 0

\* _mock_product_data for a product with no stored attributes but its price
MockProductData(product) ==
    [delivery_time_hours |-> SVal(48),
     rating |-> SVal(450),
     description |-> SVal(18),
     seo_keywords |-> SVal(2),
     current_price |-> SVal(IF product.current_price # 0 THEN product.current_price
                            ELSE 1500),
     competitor_prices |-> DVal(<<>>)]

\* financial_result.get("net_profit") of lines 138-146, as a slot
EstimatedProfit(product) ==
    IF product.current_price # 0
    THEN SVal(calculate_net_profit(Whole(product.current_price),
                                   RMul(Whole(product.current_price), Rat(6, 10)),
                                   Whole(0), Whole(15), Whole(5), TRUE).net_profit)
    ELSE SNone

\* the handler: [code, calls, rows] - the response code, the trace, and the
\* AuditLog rows it commits
full_audit(user, product, certificate_answer, marking_answer) ==
    IF PaymentRequired(user) THEN [code |-> 402, calls |-> <<>>, rows |-> <<>>]
    ELSE IF ~product.found
    THEN [code |-> 404, calls |-> <<"product_query">>, rows |-> <<>>]
    ELSE LET certificate_status == IF product.certificate_number
                                   THEN certificate_answer ELSE CertNone
             marking_status == IF product.marking_code THEN marking_answer ELSE MarkNone
             calls == <<"product_query", "marketplace_fetch">>
                      \o (IF product.certificate_number THEN <<"check_certificate">>
                          ELSE <<>>)
                      \o (IF product.marking_code THEN <<"check_marking_code">> ELSE <<>>)
                      \o <<"calculate_total_score">>
             r == calculate_total_score(FreshAcc, MockProductData(product),
                                        certificate_status, marking_status, SVal(24))
         IN  IF r.exc # "" THEN [code |-> 500, calls |-> calls, rows |-> <<>>]
             ELSE [code |-> 200,
                   calls |-> Append(calls, "audit_log_commit"),
                   rows |-> <<[total_score |-> r.scores.total_score,
                               risks_detected |-> r.risks,
                               estimated_profit |-> EstimatedProfit(product)]>>]

InitAudit ==
    /\ risks = <<>>
    /\ recommendations = <<>>
    /\ pc = "ready"
    /\ args \in AuditArgs
    /\ ret = [code |-> 0]
    /\ entry = FreshAcc
    /\ db = [audit_logs |-> <<>>, calls |-> <<>>]

FullAudit ==
    /\ pc = "ready"
    /\ LET r == full_audit(args.user, args.product, args.certificate_answer,
                           args.marking_answer)
       IN  /\ ret' = [code |-> r.code]
           /\ db' = [audit_logs |-> db.audit_logs \o r.rows, calls |-> db.calls \o r.calls]
    /\ pc' = "done"
    /\ UNCHANGED <<risks, recommendations, args, entry>>

NextAudit == FullAudit

SpecAudit == InitAudit /\ [][NextAudit]_vars

---------------------------------------------------------------------------
\* OzonService.get_product_list (services/ozon.py). One step is one pass of
\* the `for page in range(max_pages)` loop with the server's answer chosen
\* freely. args holds page_size and max_pages; ret is the frame of the call
\* (kind "running", all_items, last_id, page) and, once it has returned, the
\* outcome: kind "list" with the items, "auth" for the "__auth_error__"
\* sentinel, "raised" for an exception that leaves the method. db is the
\* server's side: the payloads it received and the answers it gave.

PageSize == 2
MaxPagesCap == 3
MaxTotal == 7

Cursors == {"", "c1", "c2"}

\* the items of a page are numbered by the request that fetched them
PageItems(req, n) == [k \in 1..n |-> <<req, k>>]

\* what the server may answer to request number req
OzonResponses(req) ==
    {[kind |-> k, items |-> <<>>, last_id |-> "", total |-> 0] :
        k \in {"exception", "auth", "nonjson", "code5", "http_error", "json_array"}}
    \cup {[kind |-> "ok", items |-> PageItems(req, n), last_id |-> c, total |-> t] :
            n \in 0..(PageSize + 1), c \in Cursors, t \in 0..MaxTotal}

\* ShouldStop without the comparison against total
ShouldStop_IgnoreTotal(last_id, page_len, page_size, collected, total) ==
    last_id = "" \/ page_len < page_size

\* if not last_id or len(items) < page_size or len(all_items) >= total: break
ShouldStop(last_id, page_len, page_size, collected, total) ==
    last_id = "" \/ page_len < page_size \/ collected >= total

InitOzon ==
    /\ risks = <<>>
    /\ recommendations = <<>>
    /\ pc = "loop"
    /\ args \in [page_size : {PageSize}, max_pages : 0..MaxPagesCap]
    /\ ret = [kind |-> "running", items |-> <<>>, last_id |-> "", page |-> 0]
    /\ entry = FreshAcc
    /\ db = [requests |-> <<>>, responses |-> <<>>]

\* the frame after the answer r to the request of this pass
AfterResponse(frame, r, page_size) ==
    CASE r.kind \in {"exception", "nonjson", "http_error"} ->
            [frame EXCEPT !.kind = "list"]
      [] r.kind \in {"auth", "code5"} ->
            [frame EXCEPT !.kind = "auth", !.items = <<>>]
      [] r.kind = "json_array" ->
            [frame EXCEPT !.kind = "raised", !.items = <<>>]
      [] OTHER ->
            LET all_items == frame.items \o r.items
            IN  [kind |-> IF ShouldStop(r.last_id, Len(r.items), page_size,
                                        Len(all_items), r.total)
                          THEN "list" ELSE "running",
                 items |-> all_items,
                 last_id |-> r.last_id,
                 page |-> frame.page + 1]

\* one pass of the loop: the request with the current cursor, the answer,
\* and what the code does with it
FetchPage ==
    /\ pc = "loop"
    /\ ret.page < args.max_pages
    /\ \E r \in OzonResponses(Len(db.requests) + 1) :
          /\ db' = [requests |-> Append(db.requests,
                                        [limit |-> args.page_size, last_id |-> ret.last_id]),
                    responses |-> Append(db.responses, r)]
          /\ ret' = AfterResponse(ret, r, args.page_size)
          /\ pc' = IF ret'.kind = "running" THEN "loop" ELSE "done"
    /\ UNCHANGED <<risks, recommendations, args, entry>>

\* range(max_pages) is exhausted: return all_items
PagesExhausted ==
    /\ pc = "loop"
    /\ ret.page >= args.max_pages
    /\ ret' = [ret EXCEPT !.kind = "list"]
    /\ pc' = "done"
    /\ UNCHANGED <<risks, recommendations, args, entry, db>>

NextOzon == FetchPage \/ PagesExhausted

SpecOzon == InitOzon /\ [][NextOzon]_vars

---------------------------------------------------------------------------
\* RosaccreditationService._post (services/rosaccreditation.py). One step is
\* one pass of the `for attempt in range(self.MAX_RETRIES + 1)` loop with the
\* outcome of the request chosen freely. args is the registry endpoint, ret
\* the frame (kind "running") and then the result (kind "json" for the
\* decoded body, "none" for None), db the outcomes of the attempts made.

MAX_RETRIES == 2

\* range(self.MAX_RETRIES + 1) counted from the first retry only
AttemptsAllowed_RetriesOnly == MAX_RETRIES

\* range(self.MAX_RETRIES + 1)
AttemptsAllowed == MAX_RETRIES + 1

RegistryEndpoints == {"rss/certificates", "rds/declarations", "rss/declarations"}

\* a decoded body, HTTPStatusError with the given status, TimeoutException,
\* or any other exception (connection refused, a body that is not JSON)
PostOutcomes == {"ok", "http_404", "http_500", "http_503", "timeout", "unexpected"}

InitRosPost ==
    /\ risks = <<>>
    /\ recommendations = <<>>
    /\ pc = "loop"
    /\ args \in RegistryEndpoints
    /\ ret = [kind |-> "running", attempt |-> 0]
    /\ entry = FreshAcc
    /\ db = [attempts |-> <<>>]

\* the frame after an attempt with outcome o
AfterAttempt(frame, o) ==
    CASE o = "ok" -> [frame EXCEPT !.kind = "json"]
      [] o = "http_404" -> [frame EXCEPT !.kind = "none"]
      [] o = "unexpected" -> [frame EXCEPT !.kind = "none"]
      [] OTHER -> [frame EXCEPT !.attempt = @ + 1]

PostAttempt ==
    /\ pc = "loop"
    /\ ret.attempt < AttemptsAllowed
    /\ \E o \in PostOutcomes :
          /\ db' = [attempts |-> Append(db.attempts, o)]
          /\ ret' = AfterAttempt(ret, o)
          /\ pc' = IF ret'.kind = "running" THEN "loop" ELSE "done"
    /\ UNCHANGED <<risks, recommendations, args, entry>>

\* the range is exhausted: log the failure, return None
AttemptsExhausted ==
    /\ pc = "loop"
    /\ ret.attempt >= AttemptsAllowed
    /\ ret' = [ret EXCEPT !.kind = "none"]
    /\ pc' = "done"
    /\ UNCHANGED <<risks, recommendations, args, entry, db>>

NextRosPost == PostAttempt \/ AttemptsExhausted

SpecRosPost == InitRosPost /\ [][NextRosPost]_vars

---------------------------------------------------------------------------
\* Robokassa payments (api/admin.py): init_payment and the robokassa_result
\* webhook. Decimal strings are sequences of digits, so that the f-string
\* concatenation and the [-9:] slice of init_payment are what they are in
\* the code. db holds the clock (seconds), the invoices handed out, the
\* users' balances and the webhook deliveries that were credited.

MaxSecond == 2
MaxInvoices == 2
MaxDeliveries == 3

PayingUsers == {1, 2, 12}
TopUpAmounts == {50, 100, 250}

\* the first nine digits of int(datetime.utcnow().timestamp()), a ten-digit
\* number since 2001; the clock supplies the last digit
EpochPrefix == <<1, 7, 6, 2, 0, 0, 0, 0, 0>>
TimestampDigits(now) == Append(EpochPrefix, now)

\* str(n) for n >= 0
RECURSIVE DigitsOf(_)
DigitsOf(n) == IF n < 10 THEN <<n>> ELSE Append(DigitsOf(n \div 10), n % 10)

\* s[-k:]
LastDigits(s, k) == IF Len(s) <= k THEN s ELSE SubSeq(s, Len(s) - k + 1, Len(s))

\* int(s): leading zeros do not count
RECURSIVE IntOfDigits(_)
IntOfDigits(s) == IF Len(s) > 1 /\ s[1] = 0 THEN IntOfDigits(Tail(s)) ELSE s

\* inv_id = int(f"{current_user.id}{int(datetime.utcnow().timestamp())}"[-9:])
InvIdOf(user_id, now) ==
    IntOfDigits(LastDigits(DigitsOf(user_id) \o TimestampDigits(now), 9))

\* _sign_result: the MD5 digest is represented by the text it is taken of
sign_result(pw2, amount, inv_id, shp) == <<amount, inv_id, pw2, shp>>

InitPayments ==
    /\ risks = <<>>
    /\ recommendations = <<>>
    /\ pc = "idle"
    /\ args = <<>>
    /\ ret = [code |-> 0]
    /\ entry = FreshAcc
    /\ db = [now |-> 0, invoices |-> <<>>,
             balance |-> [u \in PayingUsers |-> 0], credited |-> <<>>]

SecondPasses ==
    /\ db.now < MaxSecond
    /\ db' = [db EXCEPT !.now = @ + 1]
    /\ UNCHANGED <<risks, recommendations, pc, args, ret, entry>>

\* POST /payments/init with merchant and password configured
InitPayment ==
    \E u \in PayingUsers, amount \in TopUpAmounts :
        /\ Len(db.invoices) < MaxInvoices
        /\ args' = [user_id |-> u, amount |-> amount]
        /\ pc' = "init"
        /\ IF amount < 100
           THEN ret' = [code |-> 400] /\ UNCHANGED db
           ELSE /\ ret' = [code |-> 200, invoice_id |-> InvIdOf(u, db.now)]
                /\ db' = [db EXCEPT !.invoices =
                             Append(@, [inv_id |-> InvIdOf(u, db.now), user_id |-> u,
                                        amount |-> amount])]
        /\ UNCHANGED <<risks, recommendations, entry>>

\* the forms Robokassa posts for a paid invoice, and the same form with a
\* signature made without Password2
ResultForms ==
    {[OutSum |-> inv.amount, InvId |-> inv.inv_id, shp_user_id |-> inv.user_id,
      SignatureValue |-> sign_result(pw, inv.amount, inv.inv_id, inv.user_id)] :
        inv \in {db.invoices[i] : i \in DOMAIN db.invoices}, pw \in {"pw2", "guess"}}

\* the webhook: [code, balance, credited] after one delivery of form
robokassa_result(form, balance, credited) ==
    IF sign_result("pw2", form.OutSum, form.InvId, form.shp_user_id) # form.SignatureValue
    THEN [code |-> 400, balance |-> balance, credited |-> credited]
    ELSE IF form.shp_user_id \notin DOMAIN balance
    THEN [code |-> 404, balance |-> balance, credited |-> credited]
    ELSE [code |-> 200,
          balance |-> [balance EXCEPT ![form.shp_user_id] = @ + form.OutSum],
          credited |-> Append(credited, form)]

RobokassaResult ==
    \E form \in ResultForms :
        /\ Len(db.credited) < MaxDeliveries
        /\ args' = form
        /\ pc' = "result"
        /\ LET r == robokassa_result(form, db.balance, db.credited)
           IN  /\ ret' = [code |-> r.code]
               /\ db' = [db EXCEPT !.balance = r.balance, !.credited = r.credited]
        /\ UNCHANGED <<risks, recommendations, entry>>

NextPayments == SecondPasses \/ InitPayment \/ RobokassaResult

SpecPayments == InitPayments /\ [][NextPayments]_vars

---------------------------------------------------------------------------
\* The lists of one engine instance as objects. self.risks and
\* self.recommendations are references into a heap of list objects;
\* calculate_total_score binds both to new empty lists and returns the two
\* references, detect_shadow_ban appends in place to the list self.risks
\* refers to. The caller keeps the references its first successful
\* calculate_total_score call returned; db.returned is what those lists
\* held at the return. Heap references count from 1; 0 is no reference.

MaxTotalCalls == 2

InitAlias ==
    /\ risks = <<>>
    /\ recommendations = <<>>
    /\ pc = "idle"
    /\ args = CHOOSE a \in EngineTotalArgs : TRUE
    /\ ret = NoTotalRet
    /\ entry = FreshAcc
    /\ db = [heap |-> << <<>>, <<>> >>, self_risks |-> 1, self_recs |-> 2,
             caller_risks |-> 0, caller_recs |-> 0,
             returned |-> [risks |-> <<>>, recs |-> <<>>], calls |-> 0]

AliasCalculateTotalScore ==
    \E a \in EngineTotalArgs :
        /\ db.calls < MaxTotalCalls
        /\ args' = a
        /\ entry' = [risks |-> risks, recs |-> recommendations]
        /\ TotalCall(a)
        /\ pc' = "total"
        /\ LET n == Len(db.heap)
               new_risks == n + 1
               new_recs == n + 2
               took == ret'.exc = "" /\ db.caller_risks = 0
           IN  db' = [db EXCEPT
                        !.heap = db.heap \o <<risks', recommendations'>>,
                        !.self_risks = new_risks,
                        !.self_recs = new_recs,
                        !.caller_risks = IF took THEN new_risks ELSE @,
                        !.caller_recs = IF took THEN new_recs ELSE @,
                        !.returned = IF took THEN [risks |-> risks', recs |-> recommendations'] ELSE @,
                        !.calls = @ + 1]

AliasDetectShadowBan ==
    \E a \in EngineShadowArgs :
        /\ Len(risks) < MaxHeldRisks
        /\ args' = a
        /\ entry' = [risks |-> risks, recs |-> recommendations]
        /\ ShadowCall(a)
        /\ pc' = "shadow"
        /\ db' = [db EXCEPT !.heap[db.self_risks] = risks']

NextAlias == AliasCalculateTotalScore \/ AliasDetectShadowBan

SpecAlias == InitAlias /\ [][NextAlias]_vars

---------------------------------------------------------------------------
\* Two update_document_status requests for the same document, each with the
\* session its get_db dependency gave it. A request first loads the row and
\* checks the transition against what it loaded, and later sets the
\* attributes and commits; the other request may do either of its steps in
\* between. The commit writes the attributes the request changed onto the
\* stored row. db.doc is the stored row, ret[r] the row request r loaded.

MaxCommits == 3

DocRequests == {1, 2}

NoDoc == [status |-> "draft", sent_at |-> 0, response_received_at |-> 0]

InitLegalDocRace ==
    /\ risks = <<>>
    /\ recommendations = <<>>
    /\ pc = [r \in DocRequests |-> "idle"]
    /\ args = [r \in DocRequests |-> NoRequest]
    /\ ret = [r \in DocRequests |-> [code |-> 0, doc |-> NoDoc]]
    /\ entry = FreshAcc
    /\ db = [doc |-> NoDoc, now |-> 0]

\* db.commit(): the UPDATE sets the columns whose attribute differs from
\* what the session loaded and leaves the others as stored
commit(stored, loaded, changed) ==
    [status |-> IF changed.status # loaded.status THEN changed.status
                ELSE stored.status,
     sent_at |-> IF changed.sent_at # loaded.sent_at THEN changed.sent_at
                 ELSE stored.sent_at,
     response_received_at |->
         IF changed.response_received_at # loaded.response_received_at
         THEN changed.response_received_at
         ELSE stored.response_received_at]

\* the query and the two checks: the schema's 422, the 404, the 422 for a
\* transition not allowed from the loaded status
LoadAndCheck(r) ==
    \E by \in {"owner", "other"}, new_status \in RequestedStatuses :
        /\ pc[r] \in {"idle", "answered"}
        /\ LET code == update_document_status(db.doc, by, new_status, 0).code
           IN  /\ ret' = [ret EXCEPT ![r] = [code |-> IF code = 200 THEN 0 ELSE code,
                                             doc |-> db.doc]]
               /\ pc' = [pc EXCEPT ![r] = IF code = 200 THEN "checked" ELSE "answered"]
        /\ args' = [args EXCEPT ![r] = [by |-> by, new_status |-> new_status]]
        /\ UNCHANGED <<risks, recommendations, entry, db>>

\* the assignments, datetime.utcnow() and the commit
SetAndCommit(r) ==
    /\ pc[r] = "checked"
    /\ db.now < MaxCommits
    /\ LET now == db.now + 1
           changed == update_document_status(ret[r].doc, args[r].by,
                                             args[r].new_status, now).doc
       IN  /\ db' = [doc |-> commit(db.doc, ret[r].doc, changed), now |-> now]
           /\ ret' = [ret EXCEPT ![r] = [code |-> 200, doc |-> db'.doc]]
    /\ pc' = [pc EXCEPT ![r] = "answered"]
    /\ UNCHANGED <<risks, recommendations, args, entry>>

NextLegalDocRace == \E r \in DocRequests : LoadAndCheck(r) \/ SetAndCommit(r)

SpecLegalDocRace == InitLegalDocRace /\ [][NextLegalDocRace]_vars

---------------------------------------------------------------------------
\* The certificate on its way through full_audit (api/audit.py, lines
\* 123-136): RosaccreditationService._normalize_certificate turns the
\* registry's item into a record whose "status" is a CertificateStatus
\* member, and calculate_total_score classifies that record. Words are in
\* Latin transliteration; Tok(w, TRUE) is the word in capitals. db holds
\* what check_certificate returned.

\* class CertificateStatus(str, Enum): the members, each equal to its name
CertificateStatus == {"ACTIVE", "SUSPENDED", "TERMINATED", "ANNULLED", "EXPIRED", "UNKNOWN"}

\* _STATUS_MAP.get(raw_status, CertificateStatus.UNKNOWN)
STATUS_MAP(raw_status) ==
    CASE raw_status \in {"1", "deystvuet", "active", "valid"} -> "ACTIVE"
      [] raw_status \in {"2", "priostanovlen", "suspended"} -> "SUSPENDED"
      [] raw_status \in {"3", "prekraschyon", "prekraschen", "terminated"} -> "TERMINATED"
      [] raw_status \in {"4", "annulirovan", "annulled", "cancelled"} -> "ANNULLED"
      [] OTHER -> "UNKNOWN"

\* what the registry may put under "status" or "idStatus"
RawStatusWords ==
    {"1", "2", "3", "4", "5", "deystvuet", "priostanovlen", "prekraschyon",
     "prekraschen", "annulirovan", "active", "valid", "suspended", "terminated",
     "annulled", "cancelled", "expired", "text"}

RawStatusSlots ==
    {SAbsent, SNone} \cup {SVal(Tok(w, up)) : w \in RawStatusWords, up \in BOOLEAN}

\* str(raw.get("status", raw.get("idStatus", ""))).lower(), as a word
RawStatus(raw) ==
    LET slot == IF raw.status.st # "absent" THEN raw.status ELSE raw.idStatus
    IN  CASE slot.st = "absent" -> ""
          [] slot.st = "none" -> "none"
          [] OTHER -> slot.v.w

\* _normalize_certificate: the "status" entry of the record it returns
normalize_certificate(raw) == [kind |-> "dict", status |-> STATUS_MAP(RawStatus(raw))]

NoCertificate == [kind |-> "none", status |-> "UNKNOWN"]

\* the text the engine reads from the record: the member's value
StatusValue(status) ==
    CASE status = "ACTIVE" -> <<Tok("active", TRUE)>>
      [] status = "SUSPENDED" -> <<Tok("suspended", TRUE)>>
      [] status = "TERMINATED" -> <<Tok("terminated", TRUE)>>
      [] status = "ANNULLED" -> <<Tok("annulled", TRUE)>>
      [] status = "EXPIRED" -> <<Tok("expired", TRUE)>>
      [] OTHER -> <<Tok("unknown", TRUE)>>

\* certificate_status as full_audit passes it to the engine
CertificateArgument(certificate) ==
    IF certificate.kind = "none" THEN CertNone
    ELSE CertDict(TRUE, SVal(StatusValue(certificate.status)))

RegistryAnswers ==
    {[kind |-> "none", status |-> SAbsent, idStatus |-> SAbsent]}
    \cup [kind : {"items"}, status : RawStatusSlots, idStatus : RawStatusSlots]

RegistryArgs ==
    [product : [found : {TRUE}, certificate_number : BOOLEAN, marking_code : {TRUE},
                current_price : {1000}],
     registry_answer : RegistryAnswers,
     marking_answer : {MarkNone, MarkDict(TRUE, "true"), MarkDict(TRUE, "false")}]

InitRegistry ==
    /\ risks = <<>>
    /\ recommendations = <<>>
    /\ pc = "ready"
    /\ args \in RegistryArgs
    /\ ret = NoTotalRet
    /\ entry = FreshAcc
    /\ db = [certificate |-> NoCertificate]

\* lines 123-125: check_certificate when the product has a number
CheckCertificate ==
    /\ pc = "ready"
    /\ db' = [certificate |->
                IF args.product.certificate_number /\ args.registry_answer.kind = "items"
                THEN normalize_certificate(args.registry_answer)
                ELSE NoCertificate]
    /\ pc' = "checked"
    /\ UNCHANGED <<risks, recommendations, args, ret, entry>>

\* lines 131-136: calculate_total_score on the record
ClassifyCertificate ==
    /\ pc = "checked"
    /\ TotalCall([product_data |-> MockProductData(args.product),
                  certificate_status |-> CertificateArgument(db.certificate),
                  marking_status |-> IF args.product.marking_code
                                     THEN args.marking_answer ELSE MarkNone,
                  competitor_delivery_time |-> SVal(24)])
    /\ pc' = "done"
    /\ UNCHANGED <<args, entry, db>>

NextRegistry == CheckCertificate \/ ClassifyCertificate

SpecRegistry == InitRegistry /\ [][NextRegistry]_vars

---------------------------------------------------------------------------
\* Claims about the legal scorer (checked under SpecLegal)

HasWord(text, ws) == \E i \in DOMAIN text : text[i].w \in ws

ActiveWords == {"deystvuet", "valid", "active"}
SuspendedWords == {"priostanovlen"}
AnnulledWords == {"annulirovan"}

\* the certificate input read as the claim reads it
CertCase(cert) ==
    IF cert.t = "none" THEN "missing"
    ELSE IF ~(cert.nonempty /\ cert.status.st = "val") THEN "other"
    ELSE IF Lower(cert.status.v) \in ActiveTerms THEN "active"
    ELSE IF HasWord(cert.status.v, SuspendedWords) THEN "suspended"
    ELSE IF HasWord(cert.status.v, AnnulledWords) THEN "annulled"
    ELSE "other"

MarkCase(marking) ==
    IF marking.t = "none" THEN "null"
    ELSE IF marking.nonempty /\ marking.is_valid = "true" THEN "valid"
    ELSE IF marking.nonempty /\ marking.is_valid = "false" THEN "invalid"
    ELSE "other"

CertPoints(c) == CASE c = "active" -> 20 [] c = "suspended" -> 5 [] OTHER -> 0

CertRisks(c) ==
    CASE c = "suspended" -> <<RiskItem("certificate_suspended", "high", "")>>
      [] c = "annulled" -> <<RiskItem("certificate_annulled", "critical", "")>>
      [] c = "missing" -> <<RiskItem("certificate_missing", "critical", "")>>
      [] OTHER -> <<>>

MarkPoints(m) == IF m = "invalid" THEN 0 ELSE 20

MarkRisks(m) ==
    IF m = "invalid" THEN <<RiskItem("marking_invalid", "high", "")>> ELSE <<>>

\* C4: the legal score is the certificate part (20 active, 5 and one high
\* risk suspended, 0 and one critical risk annulled, 0 and one critical
\* "certificate_missing" risk for a null certificate) plus the marking part
\* (20 when is_valid is true, 0 and one high risk when it is false, 20 and no
\* risk when the marking input is null).
C4_LegalParts ==
    (pc = "done" /\ CertCase(args.cert) # "other" /\ MarkCase(args.marking) # "other")
    => /\ ret.exc = ""
       /\ ret.score = Pts(CertPoints(CertCase(args.cert)) + MarkPoints(MarkCase(args.marking)))
       /\ risks = CertRisks(CertCase(args.cert)) \o MarkRisks(MarkCase(args.marking))

C4_Witness ==
    /\ pc = "done"
    /\ CertCase(args.cert) = "suspended"
    /\ MarkCase(args.marking) = "null"
    /\ ret.score = Pts(25)
    /\ Len(risks) = 1

\* C5: a status text that contains an active-family term, in any letter case
\* and with any surrounding text, receives the 20 certificate points.
C5_ActiveIsSubstringMatch ==
    (/\ pc = "done"
     /\ args.cert.t = "dict" /\ args.cert.nonempty /\ args.cert.status.st = "val"
     /\ HasWord(args.cert.status.v, ActiveWords)
     /\ ~HasWord(args.cert.status.v, SuspendedWords \cup AnnulledWords)
     /\ MarkCase(args.marking) # "other")
    => /\ ret.exc = ""
       /\ ret.score = Pts(20 + MarkPoints(MarkCase(args.marking)))

---------------------------------------------------------------------------
\* Claims about the delivery scorer (checked under SpecDelivery)

OfType(rs, type) == SelectSeq(rs, LAMBDA r : r.type = type)
NotOfType(rs, type) == SelectSeq(rs, LAMBDA r : r.type # type)
TypesOf(rs) == [i \in DOMAIN rs |-> <<rs[i].type, rs[i].severity>>]

\* the policy table: <<points, risks of the bucket>>
TableRow(hours) ==
    IF hours.st # "val" \/ hours.v = 0 THEN <<15, <<<<"delivery_time_unknown", "medium">>>>>>
    ELSE IF hours.v <= 18 THEN <<30, <<>>>>
    ELSE IF hours.v <= 24 THEN <<25, <<>>>>
    ELSE IF hours.v <= 48 THEN <<15, <<<<"slow_delivery", "medium">>>>>>
    ELSE <<5, <<<<"very_slow_delivery", "high">>>>>>

\* C6: the delivery score follows the policy table for every input: null or
\* 0 hours gives 15 with a medium "delivery_time_unknown" risk, hours <= 18
\* gives 30, <= 24 gives 25, <= 48 gives 15 with a medium "slow_delivery"
\* risk, more gives 5 with a high "very_slow_delivery" risk.
C6_DeliveryTable ==
    pc = "done"
    => /\ ret.exc = ""
       /\ ret.score = Pts(TableRow(args.hours)[1])
       /\ TypesOf(NotOfType(risks, "slower_than_competitors")) = TableRow(args.hours)[2]

C6_Witness ==
    /\ pc = "done"
    /\ args.hours = SVal(48)
    /\ ret.score = Pts(15)
    /\ TypesOf(risks) = <<<<"slow_delivery", "medium">>>>

SlowerRisks == TypesOf(OfType(risks, "slower_than_competitors"))

\* C7 as stated: the "slower_than_competitors" risk is appended exactly when
\* a competitor benchmark is supplied and delivery_hours exceeds 1.5 times it.
C7_ExactlyWhenSupplied ==
    pc = "done"
    => (SlowerRisks # <<>>
        <=> (args.comp.st = "val" /\ args.hours.st = "val"
             /\ 2 * args.hours.v > 3 * args.comp.v))

\* C7 amended: one high "slower_than_competitors" risk is appended exactly
\* when the delivery time is known (not null, not 0), a non-zero competitor
\* benchmark is supplied and delivery_hours > competitor_avg_hours * 1.5, in
\* every bucket of the table including the 30-point one; the bucket score is
\* the table's either way.
C7_SlowerThanCompetitors ==
    pc = "done"
    => /\ SlowerRisks =
            (IF /\ args.hours.st = "val" /\ args.hours.v # 0
                /\ args.comp.st = "val" /\ args.comp.v # 0
                /\ 2 * args.hours.v > 3 * args.comp.v
             THEN <<<<"slower_than_competitors", "high">>>> ELSE <<>>)
       /\ ret.score = Pts(TableRow(args.hours)[1])

C7_Witness ==
    /\ pc = "done"
    /\ args.hours = SVal(18)
    /\ args.comp = SVal(10)
    /\ ret.score = Pts(30)
    /\ SlowerRisks # <<>>

---------------------------------------------------------------------------
\* Claims about the SEO scorer (checked under SpecSeo)

DescriptionPoints(n) == IF n >= 1000 THEN 10 ELSE IF n >= 500 THEN 7 ELSE 3

DescriptionRisks(n) ==
    IF n < 500 THEN <<<<"incomplete_description", "medium">>>> ELSE <<>>

KeywordRisks(n) == IF n < 5 THEN <<<<"insufficient_keywords", "low">>>> ELSE <<>>

SeoCalled == pc = "done" /\ args.description.st = "val" /\ args.keywords.st = "val"

\* C8 as stated: every non-null rating below 4.0 gives 3 with a high
\* "low_rating" risk, and 5 with no risk is given only to a null rating.
C8_LowRatingForEveryNonNull ==
    LET rp == IF args.rating.st # "val" THEN 5
              ELSE IF args.rating.v >= 470 THEN 10
              ELSE IF args.rating.v >= 400 THEN 7 ELSE 3
        rr == IF args.rating.st = "val" /\ args.rating.v < 400
              THEN <<<<"low_rating", "high">>>> ELSE <<>>
    IN  SeoCalled
        => /\ ret.score = Min(Pts(rp + DescriptionPoints(args.description.v)), Pts(20))
           /\ TypesOf(risks) = rr \o DescriptionRisks(args.description.v)
                                  \o KeywordRisks(args.keywords.v)

\* C8 amended: the SEO score is the rating sub-score plus the description
\* sub-score clamped to 20; the rating sub-score is 10 for rating >= 4.7, 7
\* for 4.0 <= rating < 4.7, 3 with a high "low_rating" risk for every other
\* rating that is neither null nor 0, and 5 with no risk when the rating is
\* null or 0; the description sub-score is 10 for length >= 1000, 7 for
\* length >= 500, otherwise 3 with a medium "incomplete_description" risk;
\* fewer than 5 keywords appends a low "insufficient_keywords" risk without
\* changing the score.
C8_SeoScore ==
    LET rp == IF args.rating.st # "val" \/ args.rating.v = 0 THEN 5
              ELSE IF args.rating.v >= 470 THEN 10
              ELSE IF args.rating.v >= 400 THEN 7 ELSE 3
        rr == IF args.rating.st = "val" /\ args.rating.v # 0 /\ args.rating.v < 400
              THEN <<<<"low_rating", "high">>>> ELSE <<>>
    IN  SeoCalled
        => /\ ret.exc = ""
           /\ ret.score = Min(Pts(rp + DescriptionPoints(args.description.v)), Pts(20))
           /\ TypesOf(risks) = rr \o DescriptionRisks(args.description.v)
                                  \o KeywordRisks(args.keywords.v)

C8_Witness ==
    /\ SeoCalled
    /\ args.rating = SVal(0)
    /\ args.description = SVal(1000)
    /\ args.keywords = SVal(4)
    /\ ret.score = Pts(15)
    /\ TypesOf(risks) = <<<<"insufficient_keywords", "low">>>>

---------------------------------------------------------------------------
\* Claims about the price scorer (checked under SpecPrice)

\* the platforms whose price is strictly below 0.95 * current_price, in the
\* dict's order
Offenders(items, current_price) ==
    SelectSeq(items, LAMBDA it : 100 * it[2] < 95 * current_price)

PriceCalled == pc = "done" /\ args.competitor_prices.st = "val"

DumpingRisks(items, current_price) ==
    LET off == Offenders(items, current_price)
    IN  [i \in DOMAIN off |-> RiskItem("price_dumping", "medium", off[i][1])]

\* C9 as stated: 5 with no risk for a null price, and max(0, 10 - 3k) with k
\* "price_dumping" risks for every other price.
C9_NeutralOnlyForNull ==
    PriceCalled
    => IF args.current_price.st # "val"
       THEN ret.score = Pts(5) /\ risks = <<>>
       ELSE LET k == Len(Offenders(args.competitor_prices.v, args.current_price.v))
            IN  ret.score = Max(0, Pts(10 - 3 * k)) /\ Len(risks) = k

\* C9 amended: the price score is 5 with no risk for a null or zero price;
\* otherwise it is max(0, 10 - 3k), k the number of competitor platforms whose
\* price is strictly below current_price * 0.95 (exactly 0.95 * current_price
\* is not counted), with exactly k "price_dumping" risks, one per offending
\* platform, even when the score has reached 0.
C9_PriceScore ==
    PriceCalled
    => /\ ret.exc = ""
       /\ IF args.current_price.st # "val" \/ args.current_price.v = 0
          THEN ret.score = Pts(5) /\ risks = <<>>
          ELSE LET k == Len(Offenders(args.competitor_prices.v, args.current_price.v))
               IN  /\ ret.score = Max(0, Pts(10 - 3 * k))
                   /\ risks = DumpingRisks(args.competitor_prices.v, args.current_price.v)
                   /\ Len(risks) = k

C9_Witness ==
    /\ PriceCalled
    /\ args.current_price = SVal(1000)
    /\ Len(args.competitor_prices.v) = 4
    /\ ret.score = 0
    /\ Len(risks) = 4

---------------------------------------------------------------------------
\* Claims about calculate_total_score

Returned == pc = "done" /\ ret.exc = ""

\* what a call with these arguments produces on an engine that holds nothing
OwnResult(a) ==
    calculate_total_score(FreshAcc, a.product_data, a.certificate_status,
                          a.marking_status, a.competitor_delivery_time)

Items(seq) == {seq[i] : i \in DOMAIN seq}

\* C1 (checked under Spec): whatever calls came before on the same engine,
\* the risk list and the recommendation list a call returns are exactly the
\* items produced from that call's own arguments; nothing of an earlier call
\* is in them.
C1_NoLeakBetweenCalls ==
    Returned
    => /\ ret.risks = OwnResult(args).risks
       /\ ret.recs = OwnResult(args).recs
       /\ risks = ret.risks
       /\ recommendations = ret.recs

\* a second call whose predecessor left risks that this call does not produce
C1_Witness ==
    /\ Returned
    /\ Items(entry.risks) \ Items(ret.risks) # {}
    /\ Items(entry.recs) \ Items(ret.recs) # {}
    /\ ret.risks # <<>>

\* the inputs on which no statement of the engine raises
ValidInput(a) ==
    /\ a.certificate_status.status.st # "none"
    /\ a.product_data.description.st # "none"
    /\ a.product_data.seo_keywords.st # "none"
    /\ a.product_data.competitor_prices.st # "none"

\* C2 (checked under SpecTotal): for every valid input the call returns an
\* AuditScores with 0 <= total <= 100, 0 <= legal <= 40, 0 <= delivery <= 30,
\* 0 <= seo <= 20 and 0 <= price <= 10.
C2_ScoresInRange ==
    (pc = "done" /\ ValidInput(args))
    => /\ ret.exc = ""
       /\ InRange(ret.scores.total_score, 0, 100)
       /\ InRange(ret.scores.legal_score, 0, 40)
       /\ InRange(ret.scores.delivery_score, 0, 30)
       /\ InRange(ret.scores.seo_score, 0, 20)
       /\ InRange(ret.scores.price_score, 0, 10)

\* both ends of the range are reached
C2_Witness ==
    /\ Returned
    /\ ret.scores.price_score = 0
    /\ ret.scores.legal_score = 0
    /\ ret.scores.total_score = Pts(5 + 3 + 3)

\* C3 (checked under SpecTotal): in every AuditScores returned, total equals
\* legal + delivery + seo + price, with no weight applied.
C3_TotalIsPlainSum ==
    Returned
    => ret.scores.total_score =
         ret.scores.legal_score + ret.scores.delivery_score
         + ret.scores.seo_score + ret.scores.price_score

C3_Witness ==
    /\ Returned
    /\ ret.scores.legal_score = Pts(40)
    /\ ret.scores.delivery_score = Pts(30)
    /\ ret.scores.seo_score = Pts(13)
    /\ ret.scores.price_score = Pts(5)
    /\ ret.scores.total_score = Pts(88)

\* C10 (checked under SpecTotal): the call returns, without raising, for every
\* product snapshot in which each field is absent, null or present and for
\* every certificate and marking input.
C10_TotalNeverRaises ==
    (pc = "done" /\ args.certificate_status.status.st # "none")
    => ret.exc = ""

\* the dimension whose scorer appends a risk of this type
Dimension(type) ==
    IF type \in {"certificate_suspended", "certificate_annulled", "certificate_missing",
                 "marking_invalid"} THEN 1
    ELSE IF type \in {"delivery_time_unknown", "slow_delivery", "very_slow_delivery",
                      "slower_than_competitors"} THEN 2
    ELSE IF type \in {"low_rating", "incomplete_description", "insufficient_keywords"} THEN 3
    ELSE IF type = "price_dumping" THEN 4
    ELSE 5

\* what each scorer appends for these arguments when called alone
LegalRisksOf(a) ==
    calculate_legal_score(FreshAcc, a.certificate_status, a.marking_status).risks
DeliveryRisksOf(a) ==
    calculate_delivery_score(FreshAcc, Get(a.product_data.delivery_time_hours),
                             a.competitor_delivery_time).risks
SeoRisksOf(a) ==
    calculate_seo_score(FreshAcc, Get(a.product_data.rating),
                        GetDefault(a.product_data.description, 0),
                        GetDefault(a.product_data.seo_keywords, 0)).risks
PriceRisksOf(a) ==
    calculate_price_score(FreshAcc, Get(a.product_data.current_price),
                          GetDefault(a.product_data.competitor_prices, <<>>)).risks

\* C11 (checked under SpecTotal): in the returned risk list every legal risk
\* precedes every delivery risk, every delivery risk every SEO risk, every
\* SEO risk every price risk, and the list holds every risk the four scorers
\* produce, none dropped or merged.
C11_RisksInDimensionOrder ==
    Returned
    => /\ \A i, j \in DOMAIN ret.risks :
            i < j => Dimension(ret.risks[i].type) <= Dimension(ret.risks[j].type)
       /\ ret.risks = LegalRisksOf(args) \o DeliveryRisksOf(args)
                        \o SeoRisksOf(args) \o PriceRisksOf(args)

C11_Witness ==
    /\ Returned
    /\ {Dimension(ret.risks[i].type) : i \in DOMAIN ret.risks} = {1, 2, 3, 4}
    /\ Len(OfType(ret.risks, "price_dumping")) = MaxPlatforms
    /\ Len(LegalRisksOf(args)) = 2
    /\ Len(DeliveryRisksOf(args)) = 2

---------------------------------------------------------------------------
\* Claims about detect_shadow_ban

PositionOf(h, i) == IF h[i].st = "val" THEN h[i].v ELSE 0

\* the claim's condition, on the last two entries of each history
ShadowBanExpected(a) ==
    LET ph == a.position_history
        pr == a.price_history
    IN  /\ Len(ph) >= 2
        /\ PositionOf(ph, Len(ph)) - PositionOf(ph, Len(ph) - 1) > 50
        /\ \/ Len(pr) < 2
           \/ /\ PositionOf(pr, Len(pr)) - PositionOf(pr, Len(pr) - 1) <= 10
              /\ PositionOf(pr, Len(pr) - 1) - PositionOf(pr, Len(pr)) <= 10

\* C12 (checked under SpecShadow): detect_shadow_ban returns true and appends
\* exactly one critical risk if and only if there are at least two position
\* entries, the position rose by more than 50 and the price is unchanged
\* (fewer than two price entries, or a difference of at most 0.01); otherwise
\* it returns false and appends nothing.
C12_ShadowBanIff ==
    pc = "done"
    => IF ShadowBanExpected(args)
       THEN ret.flag /\ TypesOf(risks) = <<<<"shadow_ban_detected", "critical">>>>
       ELSE ~ret.flag /\ risks = <<>>

C12_Witness ==
    /\ pc = "done"
    /\ Len(args.position_history) = 3
    /\ Len(args.price_history) = 3
    /\ args.price_history[2] # args.price_history[3]
    /\ ret.flag
    /\ Len(risks) = 1

\* C13 (checked under SpecEngine): after any sequence of earlier calls on the
\* same engine, the risks the engine holds as the outcome of a
\* detect_shadow_ban call are those the call's arguments give on a fresh
\* engine, with nothing carried over from an earlier call.
C13_DetectorStateless ==
    pc = "shadow"
    => risks = detect_shadow_ban(FreshAcc, args.position_history,
                                 args.price_history).risks

---------------------------------------------------------------------------
\* Claims about concurrent calls

\* caller c has returned exactly what its own arguments produce
ReturnedOwn(c) ==
    /\ ret[c].risks = OwnResult(args.call[c]).risks
    /\ ret[c].recs = OwnResult(args.call[c]).recs

ReturnedBy(c) == pc[c] = "done" /\ ret[c].exc = ""

\* C14 as stated: however the steps of two concurrent calls interleave, each
\* call returns only the risks and recommendations produced from its own
\* arguments, for callers sharing one instance and for callers that each
\* construct their own.
C14_IsolatedInBothSettings ==
    \A c \in Callers : ReturnedBy(c) => ReturnedOwn(c)

\* C14 (checked under SpecConcurrent): when each caller constructs its own
\* AuditEngine instance, as full_audit does, each call returns only the risks
\* and recommendations produced from its own arguments, however the steps of
\* the two calls interleave.
C14_IsolatedWithOwnInstance ==
    args.sharing = "own" => \A c \in Callers : ReturnedBy(c) => ReturnedOwn(c)

\* caller 1 has returned its risks while caller 2, with other arguments, is
\* between two of its scorer calls
C14_Witness ==
    /\ args.sharing = "own"
    /\ ReturnedBy(1)
    /\ pc[2] = "seo"
    /\ ret[1].risks # <<>>
    /\ risks[2] # <<>>
    /\ OwnResult(args.call[1]).risks # OwnResult(args.call[2]).risks

---------------------------------------------------------------------------
\* Claims about the financial calculator. Returned fields are in hundredths;
\* "x is n/d rounded to hundredths" is written 2 * |d * x - 100 * n| <= d.

NearestHundredths(x, n, d) == 2 * Abs(d * x - 100 * n) <= d

Breakdown == ret.result[1]

ProfitReturned ==
    pc = "done" /\ args.path # "audit" /\ args.product_price > 0 /\ ret.result # <<>>

\* 122 times the exact net profit with VAT, 100 times it without
NetTimes122(a) ==
    100 * 100 * a.product_price
    - 122 * a.product_price * a.marketplace_commission
    - 122 * 100 * (a.cost_price + a.logistics_cost)
    - 122 * a.product_price * a.return_rate

NetTimes100(a) ==
    100 * a.product_price
    - a.product_price * a.marketplace_commission
    - 100 * (a.cost_price + a.logistics_cost)
    - a.product_price * a.return_rate

\* C15 (checked under SpecProfit): for product_price > 0, fee = price *
\* commission%; with VAT revenue_without_vat = price / 1.22 and vat_amount =
\* price - revenue_without_vat, the two adding up to the price, otherwise
\* revenue_without_vat = price and vat_amount = 0; return_losses = price *
\* return_rate% of the gross price; net_profit = revenue_without_vat - fee -
\* cost - logistics - return_losses; margin_percentage = (price - cost) /
\* price * 100; effective_margin_percentage = net_profit / price * 100.
C15_NetProfitFormulas ==
    ProfitReturned =>
        LET a == args
            b == Breakdown
            P == a.product_price
        IN  /\ b.marketplace_fee = P * a.marketplace_commission
            /\ b.return_losses = P * a.return_rate
            /\ b.revenue_without_vat + b.vat_amount = 100 * P
            /\ IF a.include_vat
               THEN /\ NearestHundredths(b.revenue_without_vat, 100 * P, 122)
                    /\ 2 * Abs(122 * b.net_profit - NetTimes122(a)) <= 122
                    /\ 2 * Abs(122 * P * b.effective_margin_percentage
                               - 100 * NetTimes122(a)) <= 122 * P
               ELSE /\ b.revenue_without_vat = 100 * P
                    /\ b.vat_amount = 0
                    /\ b.net_profit = NetTimes100(a)
                    /\ 2 * Abs(P * b.effective_margin_percentage
                               - 100 * NetTimes100(a)) <= P
            /\ NearestHundredths(b.margin_percentage, 100 * (P - a.cost_price), P)

\* the spec's example (1220, cost 500, commission 10, no returns, VAT):
\* vat_amount 220.00, revenue_without_vat 1000.00
C15_Witness ==
    /\ ProfitReturned
    /\ args.product_price = 1220 /\ args.cost_price = 500
    /\ args.marketplace_commission = 10 /\ args.return_rate = 0
    /\ args.logistics_cost = 0 /\ args.include_vat
    /\ Breakdown.vat_amount = 22000
    /\ Breakdown.revenue_without_vat = 100000
    /\ Breakdown.net_profit = 37800

FedBack == pc = "done" /\ ret.exc = "" /\ ret.at_breakeven # <<>>

\* C16 (checked under SpecBreakEven): with commission% + return% < 100,
\* calculate_net_profit at the returned break-even price gives a net profit
\* of 0, and at the returned recommended price a net margin equal to the
\* requested target margin, up to rounding to hundredths.
C16_BreakEvenInverts ==
    (FedBack /\ args.marketplace_commission + args.return_rate < 100)
    => /\ Abs(ret.at_breakeven[1].net_profit) <= 2
       /\ Abs(ret.at_recommended[1].effective_margin_percentage
              - 100 * args.target_margin) <= 2

\* C17 (checked under SpecProfit): on every call path (the calculate_finances
\* endpoint, full_audit, a direct call) no breakdown is produced for a
\* product_price or cost_price that is zero or negative.
C17_NonPositiveRejected ==
    (/\ pc = "done"
     /\ \/ args.product_price <= 0
        \/ args.path # "audit" /\ args.cost_price <= 0)
    => ret.result = <<>>

---------------------------------------------------------------------------
\* Claims about legal documents

AllowedChanges ==
    {<<"draft", "sent">>, <<"draft", "closed">>, <<"sent", "response_received">>,
     <<"sent", "closed">>, <<"response_received", "closed">>}

\* C18 (checked under SpecLegalDoc): over any sequence of status requests the
\* stored status changes only along draft -> sent, draft -> closed, sent ->
\* response_received, sent -> closed, response_received -> closed; every
\* other transition requested by the owner is answered with 422 and leaves
\* the document unchanged; a closed document never changes again.
C18_OnlyValidTransitions ==
    [][/\ db'.doc.status # db.doc.status
          => <<db.doc.status, db'.doc.status>> \in AllowedChanges
       /\ (args'.by = "owner" /\ <<db.doc.status, args'.new_status>> \notin AllowedChanges)
          => (ret'.code = 422 /\ db'.doc = db.doc)
       /\ (args'.by = "owner" /\ <<db.doc.status, args'.new_status>> \in AllowedChanges)
          => (ret'.code = 200 /\ db'.doc.status = args'.new_status)
       /\ db.doc.status = "closed" => db'.doc = db.doc]_vars

\* sent, answered, closed, and then a request to send it again was refused
C18_Witness ==
    /\ pc = "answered"
    /\ db.doc.status = "closed"
    /\ db.doc.sent_at > 0
    /\ db.doc.response_received_at > db.doc.sent_at
    /\ args = [by |-> "owner", new_status |-> "sent"]
    /\ ret.code = 422

---------------------------------------------------------------------------
\* Claims about logout

\* C19 (checked under SpecAuth): once logout has revoked a token's jti, every
\* later request with that token is rejected for as long as
\* decode_access_token still accepts it, whatever other tokens are revoked
\* in between; a jti leaves the blacklist only after its token has expired.
C19_RevokedStaysRejected ==
    /\ (pc = "request" /\ args.jti \in db.log /\ DecodeAccepts(args, db.now))
       => ret.code = 401
    /\ \A t \in IssuedTokens :
          (t.jti \in db.log /\ DecodeAccepts(t, db.now)) => is_revoked(db.store, t.jti)

---------------------------------------------------------------------------
\* Claims about full_audit

SubscriptionInactive(user) ==
    user.subscription_active = SNone \/ user.subscription_active = SVal(0)

NoPositiveBalance(user) ==
    user.balance.st # "val" \/ user.balance.v = 0 \/ user.balance.v < 0

\* C20 (checked under SpecAudit): a user whose subscription is not active
\* and whose balance is null, zero or negative is answered 402 before any
\* product lookup, registry check, scoring or AuditLog write; a user with an
\* active subscription or a positive balance passes the gate.
C20_PaymentGateFirst ==
    pc = "done"
    => IF SubscriptionInactive(args.user) /\ NoPositiveBalance(args.user)
       THEN ret.code = 402 /\ db.calls = <<>> /\ db.audit_logs = <<>>
       ELSE ret.code # 402 /\ db.calls # <<>>

\* refused although the product exists and has a certificate to check
C20_Witness ==
    /\ pc = "done"
    /\ ret.code = 402
    /\ args.user.balance = SVal(0)
    /\ args.user.subscription_active = SNone
    /\ args.product.found
    /\ args.product.certificate_number

---------------------------------------------------------------------------
\* Claims about the Ozon product list

RECURSIVE ItemsServed(_)
ItemsServed(responses) ==
    IF responses = <<>> THEN <<>>
    ELSE ItemsServed(SubSeq(responses, 1, Len(responses) - 1))
         \o responses[Len(responses)].items

\* the answer ends the pagination: an empty cursor, a short page, or the
\* total reached by the items served so far
EndsPagination(responses, i, page_size) ==
    \/ responses[i].kind # "ok"
    \/ responses[i].last_id = ""
    \/ Len(responses[i].items) < page_size
    \/ Len(ItemsServed(SubSeq(responses, 1, i))) >= responses[i].total

UnexpectedKinds == {"exception", "nonjson", "http_error", "json_array"}

KindsAnswered == {db.responses[i].kind : i \in DOMAIN db.responses}

\* C22 (checked under SpecOzon): the three outcomes are distinguishable: a
\* list only when every page request succeeded, the "__auth_error__"
\* sentinel when the credentials are rejected, None when an unexpected error
\* (transport exception, non-JSON body, non-auth HTTP failure) occurs on any
\* page.
C22_OutcomesDistinguishable ==
    pc = "done"
    => /\ ret.kind = "list" => KindsAnswered \subseteq {"ok"}
       /\ KindsAnswered \cap {"auth", "code5"} # {} => ret.kind = "auth"
       /\ KindsAnswered \cap UnexpectedKinds # {} => ret.kind = "none"

---------------------------------------------------------------------------
\* Claims about the registry client

Retried(o) == o \in {"http_500", "http_503", "timeout"}

\* C23 (checked under SpecRosPost): _post never makes more than
\* MAX_RETRIES + 1 attempts; it makes exactly that many and returns None
\* when every attempt fails with a non-404 HTTP error or a timeout; it
\* returns at once on the first successful response, on a 404 and after an
\* unexpected exception.
C23_RetryBudget ==
    LET n == Len(db.attempts)
    IN  /\ n <= MAX_RETRIES + 1
        /\ \A i \in 1..(n - 1) : Retried(db.attempts[i])
        /\ pc = "loop" => \A i \in 1..n : Retried(db.attempts[i])
        /\ pc = "done"
           => /\ n >= 1
              /\ db.attempts[n] = "ok" => ret.kind = "json"
              /\ db.attempts[n] # "ok" => ret.kind = "none"
              /\ Retried(db.attempts[n]) => n = MAX_RETRIES + 1

\* three failures in a row, the last one a timeout, and None
C23_Witness ==
    /\ pc = "done"
    /\ ret.kind = "none"
    /\ db.attempts = <<"http_500", "http_503", "timeout">>

---------------------------------------------------------------------------
\* Claims about payments

\* C24 (checked under SpecPayments): two init_payment calls never produce
\* the same InvId, in particular not two calls by different users within
\* the same second.
C24_InvIdUnique ==
    \A i, j \in DOMAIN db.invoices :
        i # j => db.invoices[i].inv_id # db.invoices[j].inv_id

\* the invoices of user u that were credited, each counted once
InvoicesCredited(u) ==
    {[inv_id |-> db.credited[i].InvId, amount |-> db.credited[i].OutSum] :
        i \in {k \in DOMAIN db.credited : db.credited[k].shp_user_id = u}}

RECURSIVE SumOfAmounts(_)
SumOfAmounts(S) ==
    IF S = {} THEN 0
    ELSE LET x == CHOOSE y \in S : TRUE
         IN  x.amount + SumOfAmounts(S \ {x})

\* C28 (checked under SpecPayments): whatever callbacks arrive, the same
\* validly signed one twice included, a user's balance grows by OutSum only
\* once per InvId.
C28_CreditedOncePerInvoice ==
    \A u \in PayingUsers : db.balance[u] <= SumOfAmounts(InvoicesCredited(u))

---------------------------------------------------------------------------
\* Further claims about the legal scorer

\* C25 (checked under SpecLegal): whenever _calculate_legal_score awards
\* fewer than 40 points, at least one risk was appended during the call,
\* for every certificate input and every marking input.
C25_NoSilentDeduction ==
    (pc = "done" /\ ret.exc = "" /\ ret.score < Pts(MAX_LEGAL)) => Len(risks) >= 1

---------------------------------------------------------------------------
\* Claims about the lists handed to the caller

\* the caller holds the lists of a calculate_total_score call
CallerHolds == db.caller_risks # 0 /\ db.caller_recs # 0

\* C26 (checked under SpecAlias): the risk list and the recommendation list
\* a calculate_total_score call returned keep the contents they had at the
\* return, whatever is called later on the same engine instance.
C26_ReturnedListsUnchanged ==
    CallerHolds => /\ db.heap[db.caller_risks] = db.returned.risks
                   /\ db.heap[db.caller_recs] = db.returned.recs

---------------------------------------------------------------------------
\* Further claims about the break-even price

\* C27 (checked under SpecBreakEven): for a positive cost, non-negative
\* logistics cost and target margin, and commission and return percentages
\* each within 0..100, whatever their sum, calculate_break_even_price
\* returns without raising, and both the break-even price and the
\* recommended price it returns are positive.
C27_BreakEvenTotal ==
    (/\ pc \in {"priced", "done"}
     /\ args.cost_price > 0 /\ args.logistics_cost >= 0 /\ args.target_margin >= 0
     /\ args.marketplace_commission \in 0..100
     /\ args.return_rate \in 0..100)
    => /\ ret.exc = ""
       /\ ret.prices.breakeven_price > 0
       /\ ret.prices.recommended_price > 0

---------------------------------------------------------------------------
\* Claims about the timestamps of a legal document

\* the stored row has the timestamp its status calls for
TimestampsSet ==
    /\ db.doc.status \in {"sent", "response_received"} => db.doc.sent_at # 0
    /\ db.doc.status = "response_received" => db.doc.response_received_at # 0

\* a timestamp that is set keeps its value over the step
TimestampsKept ==
    /\ db.doc.sent_at # 0 => db'.doc.sent_at = db.doc.sent_at
    /\ db.doc.response_received_at # 0
       => db'.doc.response_received_at = db.doc.response_received_at

\* C29 (checked under SpecLegalDocRace): in every state of a document,
\* whatever the interleaving of two update_document_status requests between
\* their transition check and their commit, status sent or response_received
\* implies sent_at is set, status response_received implies
\* response_received_at is set, and a timestamp once set never changes.
C29_TimestampsInvariant == [][TimestampsSet' /\ TimestampsKept]_vars

---------------------------------------------------------------------------
\* Claims about the registry's certificate status in full_audit

\* the points the marking half of the legal score contributed
MarkingPoints == MarkingCheck([score |-> 0, risks |-> <<>>, recs |-> <<>>, exc |-> ""], args.marking_answer).score

\* the points the certificate half contributed
CertificatePoints == ret.scores.legal_score - MarkingPoints

HasRisk(type, severity) ==
    \E i \in DOMAIN ret.risks : ret.risks[i].type = type /\ ret.risks[i].severity = severity

\* C30 (checked under SpecRegistry): for every status the registry service
\* can put in the certificate record, the engine gives the 20 certificate
\* points exactly for ACTIVE, 5 points and a high certificate_suspended risk
\* for SUSPENDED, and 0 points and a critical certificate_annulled risk for
\* ANNULLED.
C30_RegistryStatusClassified ==
    (pc = "done" /\ db.certificate.kind = "dict")
    => /\ ret.exc = ""
       /\ CertificatePoints = Pts(20) <=> db.certificate.status = "ACTIVE"
       /\ db.certificate.status = "SUSPENDED"
          => CertificatePoints = Pts(5) /\ HasRisk("certificate_suspended", "high")
       /\ db.certificate.status = "ANNULLED"
          => CertificatePoints = Pts(0) /\ HasRisk("certificate_annulled", "critical")

====
